---- MODULE Spec2Model ----
(***************************************************************************)
(* Model of the desktop agent's automation task queue                      *)
(* (src-tauri/src/automation/queue.rs, trust.rs, sync.rs) and of its       *)
(* event buffer and sync engine (src-tauri/src/sync.rs, collector/mod.rs,  *)
(* db.rs, main.rs).                                                        *)
(*                                                                         *)
(* The specifications of the module:                                       *)
(*   SpecQueue     the AutomationQueue, its process() loop, its callers    *)
(*                 and the shutdown signal                                 *)
(*   SpecSync      the event buffer, the collector's push, the periodic    *)
(*                 sync loop and manual_sync                               *)
(*   SpecBuffer    the buffer from a fresh store, with restarts            *)
(*   SpecCustom    one execution of a Custom command                       *)
(*   SpecChannel   the Remote Control Channel (automation/sync.rs)         *)
(*   SpecTrust     calls of requires_confirmation and                      *)
(*                 classify_command_danger                                 *)
(*   SpecSanitize  calls of sanitize_command                               *)
(*   SpecUrl       calls of validate_url                                   *)
(*   SpecQueueFair the queue and its callers under fair scheduling         *)
(*   SpecStatus    the queue with status() read field by field             *)
(*   SpecSyncFair  the periodic sync loop under fair scheduling            *)
(*   SpecPing      the channel's connections and their ping tasks          *)
(*   SpecChannelAuth  the channel with an auth token configured            *)
(*   SpecForward   the queue's results forwarded over the channel by main  *)
(* Every lock-protected block of the source is one atomic action; an       *)
(* await between two blocks is a point where other tasks interleave.       *)
(***************************************************************************)
EXTENDS Integers, Sequences, FiniteSets, TLC

VARIABLES
    \* ---- AutomationQueue (queue.rs:262-269)
    tasks,            \* Mutex<BinaryHeap<AutomationTask>>: the heap's vector
    is_paused,        \* RwLock<bool>
    completed_count,  \* RwLock<usize>
    failed_count,     \* RwLock<usize>
    current_task,     \* RwLock<Option<String>>
    result_chan,      \* everything sent on result_tx, in order
    \* ---- process() (queue.rs:332-381), one entry per spawned processor
    pc,               \* where each processor stands in its loop
    task,             \* the processor's local `task` (None when it holds none)
    result,           \* the processor's local `result`
    held,             \* the queue's locks the processor holds between two steps
    \* ---- history of the queue, read by the properties only
    submitted,        \* number of add_task calls so far
    dequeued,         \* every task popped by process(), in pop order
    late_add,         \* TRUE once add_task ran after the first pop
    confirmed_tasks,  \* ids of tasks for which user confirmation was obtained
    \* ---- AppState and the sync engine (main.rs:22-31, sync.rs)
    events_buffer,    \* AppState.events_buffer: Vec<Event>, as event ids
    db,               \* EventDatabase: the ids of the stored events
    spc,              \* where each sync task stands
    events,           \* the sync task's local snapshot `events`
    attempt,          \* sync_events: the retry loop's `attempt`
    response,         \* sync_events: what the last POST came back with
    sync_ret,         \* the value sync_events returned
    posts,            \* sync_events: the POSTs sent by the current call
    delays,           \* sync_events: the backoff delays slept by the current call, in ms
    buffer_warnings_logged,  \* AppState.buffer_warnings_logged
    state_lock,       \* who holds the Mutex<AppState> between two steps
    \* ---- history of the buffer, read by the properties only
    next_event,       \* number of events created so far
    evicted,          \* ids dropped from the buffer by the capacity check
    retired,          \* ids of the acknowledgments applied to the buffer and the store
    high_water,       \* the high-water warnings logged since occupancy was last
                      \* below half the threshold: "quiet", "warned", "warned_again";
                      \* "unobserved" in the behaviours that keep no such history
    \* ---- one execution of a Custom command (queue.rs:448-450, 521-642)
    cc_os,            \* the target_os of the build
    cc_name,          \* TaskCommand::Custom.name
    cc_params,        \* TaskCommand::Custom.params
    cc_pc,            \* where the execution stands
    cc_result,        \* the TaskResult execute_task returned
    \* ---- history of the execution, read by the properties only
    spawned,          \* the processes spawned, in order
    requests,         \* the HTTP requests sent, in order
    \* ---- main (main.rs:70-80, 216-250)
    shutdown_token,   \* CancellationToken: TRUE once cancel() was called
    \* ---- AutomationSync (automation/sync.rs:58-64) and its connection
    ws_writer,        \* Mutex<Option<WsWriter>>: <<>>, or <<k>> for the sink of connection k
    is_connected,     \* Mutex<bool>
    ws_pc,            \* where start()/connect() stands
    link,             \* the connection of the current attempt: "none", "open", "closed"
    connections,      \* number of connections established so far
    \* ---- history of the channel, read by the properties only
    written,          \* number of frames written to a connection so far
    last_written,     \* the last of them, with its connection
    received,         \* number of messages the read loop took from the stream
    last_received,    \* the last of them
    send_ret,         \* what the last send_result / send_status returned
    send_calls,       \* number of send_result / send_status calls so far
    \* ---- one call of a pure function (trust.rs, queue.rs, sync.rs)
    fn_call,          \* the function called and its arguments
    fn_ret,           \* <<>> before the call, then <<the value returned>>
    \* ---- one caller of AutomationQueue::status (queue.rs:296-311)
    cleared,          \* history: ids of the tasks clear() removed
    st_pc,            \* where the status() call stands
    st_snap,          \* the locals of status() read so far
    st_ret,           \* <<>>, then <<the last QueueStatus returned>>
    \* ---- AutomationSync's auth token and ping tasks (automation/sync.rs:60, 149-170)
    auth_token,       \* Option<String>: <<>> or <<"token">>
    pingers,          \* the connections whose ping task is still looping
    pings,            \* history: the pings written, by task and by connection
    \* ---- main's result forwarding task (main.rs:130-147)
    forwarded,        \* number of results the task took from result_rx
    delivered         \* history: ids of the results written to a connection

queue_vars == <<tasks, is_paused, completed_count, failed_count, current_task,
                result_chan, pc, task, result, held, submitted, dequeued,
                late_add, confirmed_tasks>>

sync_vars == <<events_buffer, db, spc, events, attempt, response, sync_ret,
               posts, delays, buffer_warnings_logged, state_lock,
               next_event, evicted, retired, high_water>>

custom_vars == <<cc_os, cc_name, cc_params, cc_pc, cc_result, spawned, requests>>

main_vars == <<shutdown_token>>

channel_vars == <<ws_writer, is_connected, ws_pc, link, connections, written,
                  last_written, received, last_received, send_ret, send_calls>>

call_vars == <<fn_call, fn_ret>>

status_vars == <<cleared, st_pc, st_snap, st_ret>>

ping_vars == <<auth_token, pingers, pings>>

forward_vars == <<forwarded, delivered>>

vars == <<queue_vars, sync_vars, custom_vars, main_vars, channel_vars, call_vars,
          status_vars, ping_vars, forward_vars>>

None == "None"

(***************************************************************************)
(* Bounds of the model.                                                    *)
(***************************************************************************)
\* add_task calls in one behaviour
MaxTasks == 2

\* The created_at values a submitted task may carry: the submitter sets the
\* field, so any order against the order of submission can occur, ties
\* included.
CreatedAts == {1, 2}

\* events the collector creates or the store holds at startup, in all
MaxEvents == 3

\* main.rs MAX_BUFFER_SIZE is 10_000; the model's buffer holds this many
MAX_BUFFER_SIZE == 2

\* main.rs BUFFER_WARNING_THRESHOLD is 8_000; the model warns from this
\* occupancy on
BUFFER_WARNING_THRESHOLD == 2

(***************************************************************************)
(* TaskPriority (queue.rs:19-24): Low = 0 < Normal = 1 < High = 2 <        *)
(* Urgent = 3.                                                             *)
(***************************************************************************)
Low == 0
Normal == 1
High == 2
Urgent == 3

TaskPriority == {Low, Normal, High, Urgent}

(***************************************************************************)
(* trust.rs                                                                *)
(***************************************************************************)
TrustLevel == {"AskAlways", "AskDangerous", "FullTrust"}

\* impl Default for TrustLevel; also what #[serde(skip)] gives a
\* deserialized AutomationTask
TrustLevelDefault == "AskDangerous"

\* DangerLevel derives Ord: Safe < Moderate < Dangerous
DangerLevel == {"Safe", "Moderate", "Dangerous"}

DangerRank(d) ==
    CASE d = "Safe" -> 0
      [] d = "Moderate" -> 1
      [] d = "Dangerous" -> 2

\* a mutant of requires_confirmation: AskDangerous asks from Moderate on
requires_confirmation_from_moderate(level, danger) ==
    CASE level = "AskAlways" -> TRUE
      [] level = "AskDangerous" -> DangerRank(danger) >= DangerRank("Moderate")
      [] level = "FullTrust" -> FALSE

\* TrustLevel::requires_confirmation
requires_confirmation(level, danger) ==
    CASE level = "AskAlways" -> TRUE
      [] level = "AskDangerous" -> DangerRank(danger) >= DangerRank("Dangerous")
      [] level = "FullTrust" -> FALSE

\* str::to_lowercase on the key names the model uses
to_lowercase(key) ==
    CASE key = "Q" -> "q"
      [] key = "W" -> "w"
      [] key = "A" -> "a"
      [] key = "Delete" -> "delete"
      [] key = "Escape" -> "escape"
      [] OTHER -> key

\* a mutant of is_dangerous_hotkey: the modifiers are not looked at
is_dangerous_hotkey_any_modifier(modifiers, key) ==
    to_lowercase(key) \in {"q", "w", "delete", "backspace", "escape"}

is_dangerous_hotkey(modifiers, key) ==
    LET has_cmd_or_ctrl ==
            \E m \in modifiers : m \in {"meta", "cmd", "command", "control", "ctrl"}
    IN  IF has_cmd_or_ctrl
        THEN to_lowercase(key) \in {"q", "w", "delete", "backspace", "escape"}
        ELSE FALSE

\* str::len: the length of the text's UTF-8 encoding, in bytes.  A text is
\* a record of its number of characters, its number of bytes and whether
\* it holds a newline.
str_len(text) == text.bytes

\* A TaskCommand is a record with a `type` and the fields the code reads.
classify_command_danger(command) ==
    CASE command.type = "Screenshot" -> "Safe"
      [] command.type = "BrowserGetUrl" -> "Safe"
      [] command.type = "Wait" -> "Safe"
      [] command.type = "Click" -> "Moderate"
      [] command.type = "Type" ->
            IF str_len(command.text) > 100 \/ command.text.newline
            THEN "Dangerous" ELSE "Moderate"
      [] command.type = "BrowserNavigate" -> "Moderate"
      [] command.type = "Hotkey" ->
            IF is_dangerous_hotkey(command.modifiers, command.key)
            THEN "Dangerous" ELSE "Moderate"
      [] command.type = "Custom" -> "Dangerous"

\* TrustManager::requires_confirmation, with the level the task carries
task_requires_confirmation(t) ==
    requires_confirmation(t.trust_level, classify_command_danger(t.command))

(***************************************************************************)
(* AutomationTask and its ordering (queue.rs:28-80).                       *)
(***************************************************************************)
\* The commands submitted to the queue in this model.
QueueCommands ==
    { [type |-> "Wait"],
      [type |-> "Custom", name |-> "shell"] }

\* Both submission paths deserialize the whole task (commands.rs:328-333,
\* automation/sync.rs:212-218): id, priority, command and created_at are the
\* submitter's; trust_level is #[serde(skip)], so it is the default.  Ids
\* are UUIDs: the k-th submitted task is given the id k.
NewTask(id, priority, created_at, command) ==
    [ id |-> id, priority |-> priority, created_at |-> created_at,
      command |-> command, trust_level |-> TrustLevelDefault ]

\* Ord::cmp on integers
IntCmp(a, b) == IF a < b THEN "Less" ELSE IF a > b THEN "Greater" ELSE "Equal"

\* a mutant of TaskCmp: a min-heap on priority
TaskCmp_reversed(a, b) ==
    IF IntCmp(a.priority, b.priority) = "Equal"
    THEN IntCmp(b.created_at, a.created_at)
    ELSE IntCmp(b.priority, a.priority)

\* impl Ord for AutomationTask
TaskCmp(a, b) ==
    IF IntCmp(a.priority, b.priority) = "Equal"
    THEN IntCmp(b.created_at, a.created_at)
    ELSE IntCmp(a.priority, b.priority)

(***************************************************************************)
(* std::collections::BinaryHeap<AutomationTask> (queue.rs:263), as the     *)
(* standard library implements it: a max-heap in a vector, position p's    *)
(* children at 2p+1 and 2p+2 (positions count from 0, as in the library).  *)
(***************************************************************************)
\* the element at position p
At(h, p) == h[p + 1]

\* the vector with position p set to x
Put(h, p, x) == [h EXCEPT ![p + 1] = x]

\* a <= b under PartialOrd, which is Some(cmp)
TaskLe(a, b) == TaskCmp(a, b) \in {"Less", "Equal"}

\* BinaryHeap::sift_up(start, pos), the hole's element being elt
RECURSIVE SiftUp(_, _, _, _)
SiftUp(h, start, pos, elt) ==
    IF pos > start
    THEN LET parent == (pos - 1) \div 2
         IN  IF TaskLe(elt, At(h, parent))
             THEN Put(h, pos, elt)
             ELSE SiftUp(Put(h, pos, At(h, parent)), start, parent, elt)
    ELSE Put(h, pos, elt)

\* BinaryHeap::sift_down_to_bottom(pos): the hole goes down to a leaf along
\* the greater children, then its element is sifted up from there
RECURSIVE SiftDownToBottom(_, _, _)
SiftDownToBottom(h, pos, elt) ==
    LET end == Len(h)
        child == 2 * pos + 1
    IN  IF child <= end - 2
        THEN LET c == IF TaskLe(At(h, child), At(h, child + 1))
                      THEN child + 1 ELSE child
             IN  SiftDownToBottom(Put(h, pos, At(h, c)), c, elt)
        ELSE IF child = end - 1
             THEN SiftUp(Put(h, pos, At(h, child)), 0, child, elt)
             ELSE SiftUp(h, 0, pos, elt)

\* BinaryHeap::push
HeapPush(h, item) == SiftUp(Append(h, item), 0, Len(h), item)

\* the task BinaryHeap::pop returns from a non-empty heap: the root
HeapTop(h) == h[1]

\* a mutant of HeapAfterPop: the popped task stays in the heap (a peek)
HeapAfterPop_keep(h) == h

\* the heap BinaryHeap::pop leaves: the last element takes the root's
\* place and is sifted down
HeapAfterPop(h) ==
    LET last == h[Len(h)]
        rest == SubSeq(h, 1, Len(h) - 1)
    IN  IF Len(rest) = 0 THEN rest ELSE SiftDownToBottom(rest, 0, last)

\* a mutant of Workers: process() spawned twice
Workers_two == {"w1", "w2"}

\* main spawns queue_clone.process() once
Workers == {"w1"}

(***************************************************************************)
(* AutomationQueue's operations.  Each takes the lock of the field it      *)
(* touches and waits while another task holds it.                          *)
(***************************************************************************)
\* the locks of AutomationQueue's fields
QueueLocks == {"tasks", "is_paused", "completed_count", "failed_count", "current_task"}

\* no processor holds lock l, and no status() call does: status() takes
\* the `tasks` mutex first and keeps the guard until it returns
LockFree(l) ==
    /\ \A w \in Workers : l \notin held[w]
    /\ l = "tasks" => st_pc = "idle"

\* a mutant of HeldAfterBlock: the guard outlives its block
HeldAfterBlock_kept(l) == {l}

\* what a processor holds of the lock l it took in a block of process(),
\* once the block is left: the guard is a local of the block (or a
\* temporary of the `if` condition) and is dropped there
HeldAfterBlock(l) == {}

\* AutomationQueue::add_task
add_task(t) ==
    /\ LockFree("tasks")
    /\ tasks' = HeapPush(tasks, t)
    /\ submitted' = submitted + 1
    /\ late_add' = (late_add \/ Len(dequeued) > 0)
    /\ UNCHANGED <<is_paused, completed_count, failed_count, current_task,
                   result_chan, pc, task, result, dequeued, confirmed_tasks, held>>

\* commands::queue_add_task: a task submitted by the local UI
QueueAddTask ==
    /\ submitted < MaxTasks
    /\ \E p \in TaskPriority, c \in CreatedAts, cmd \in QueueCommands :
          add_task(NewTask(submitted + 1, p, c, cmd))
    /\ UNCHANGED <<sync_vars, custom_vars, main_vars, channel_vars, call_vars, status_vars, ping_vars, forward_vars>>

\* AutomationSync::handle_message on an automation_task frame
HandleMessageAutomationTask ==
    /\ submitted < MaxTasks
    /\ \E p \in TaskPriority, c \in CreatedAts, cmd \in QueueCommands :
          add_task(NewTask(submitted + 1, p, c, cmd))
    /\ UNCHANGED <<sync_vars, custom_vars, main_vars, channel_vars, call_vars, status_vars, ping_vars, forward_vars>>

\* AutomationQueue::pause
Pause ==
    /\ LockFree("is_paused")
    /\ is_paused' = TRUE
    /\ UNCHANGED <<tasks, completed_count, failed_count, current_task,
                   result_chan, pc, task, result, submitted, dequeued, late_add,
                   confirmed_tasks, held>>
    /\ UNCHANGED <<sync_vars, custom_vars, main_vars, channel_vars, call_vars, status_vars, ping_vars, forward_vars>>

\* AutomationQueue::resume
Resume ==
    /\ LockFree("is_paused")
    /\ is_paused' = FALSE
    /\ UNCHANGED <<tasks, completed_count, failed_count, current_task,
                   result_chan, pc, task, result, submitted, dequeued, late_add,
                   confirmed_tasks, held>>
    /\ UNCHANGED <<sync_vars, custom_vars, main_vars, channel_vars, call_vars, status_vars, ping_vars, forward_vars>>

\* the ids of the tasks of a heap
TaskIds(h) == { h[k].id : k \in 1..Len(h) }

\* a mutant of Clear: the task at the top of the heap survives
Clear_keeps_top ==
    /\ LockFree("tasks")
    /\ tasks' = IF Len(tasks) > 0 THEN <<HeapTop(tasks)>> ELSE <<>>
    /\ cleared' = cleared \cup TaskIds(tasks)
    /\ UNCHANGED <<is_paused, completed_count, failed_count, current_task,
                   result_chan, pc, task, result, submitted, dequeued, late_add,
                   confirmed_tasks, held>>
    /\ UNCHANGED <<st_pc, st_snap, st_ret>>
    /\ UNCHANGED <<sync_vars, custom_vars, main_vars, channel_vars, call_vars,
                   ping_vars, forward_vars>>

\* AutomationQueue::clear: `tasks.clear()` under the mutex
Clear ==
    /\ LockFree("tasks")
    /\ tasks' = <<>>
    /\ cleared' = cleared \cup TaskIds(tasks)
    /\ UNCHANGED <<is_paused, completed_count, failed_count, current_task,
                   result_chan, pc, task, result, submitted, dequeued, late_add,
                   confirmed_tasks, held>>
    /\ UNCHANGED <<st_pc, st_snap, st_ret>>
    /\ UNCHANGED <<sync_vars, custom_vars, main_vars, channel_vars, call_vars,
                   ping_vars, forward_vars>>

(***************************************************************************)
(* AutomationQueue::process, one action per lock-protected block.          *)
(***************************************************************************)
\* a mutant of StepAfter: the result is published before it is counted
StepAfter_publish_first(step) ==
    CASE step = "executing" -> "send_result"
      [] step = "send_result" -> "update_counters"
      [] step = "update_counters" -> "clear_current"

\* a mutant of StepAfter: the result is counted and never sent
StepAfter_skip_send(step) ==
    CASE step = "executing" -> "update_counters"
      [] step = "update_counters" -> "clear_current"
      [] step = "send_result" -> "clear_current"

\* the order of the statements that follow execute_task in the loop body:
\* "Update counters", "Send result", "Clear current task"
StepAfter(step) ==
    CASE step = "executing" -> "update_counters"
      [] step = "update_counters" -> "send_result"
      [] step = "send_result" -> "clear_current"

\* `if *self.is_paused.read().await { sleep; continue }`
CheckPaused(w) ==
    /\ LockFree("is_paused")
    /\ pc[w] = "check_paused"
    /\ pc' = [pc EXCEPT ![w] = IF is_paused THEN "check_paused" ELSE "pop"]
    /\ UNCHANGED <<tasks, is_paused, completed_count, failed_count, current_task,
                   result_chan, task, result, submitted, dequeued, late_add,
                   confirmed_tasks>>
    /\ held' = [held EXCEPT ![w] = HeldAfterBlock("is_paused")]
    /\ UNCHANGED <<sync_vars, custom_vars, main_vars, channel_vars, call_vars, status_vars, ping_vars, forward_vars>>

\* `let task = { tasks.lock().await.pop() }` with a task in the heap
PopTask(w) ==
    /\ LockFree("tasks")
    /\ pc[w] = "pop"
    /\ Len(tasks) > 0
    /\ task' = [task EXCEPT ![w] = HeapTop(tasks)]
    /\ dequeued' = Append(dequeued, HeapTop(tasks))
    /\ tasks' = HeapAfterPop(tasks)
    /\ pc' = [pc EXCEPT ![w] = "set_current"]
    /\ UNCHANGED <<is_paused, completed_count, failed_count, current_task,
                   result_chan, result, submitted, late_add, confirmed_tasks>>
    /\ held' = [held EXCEPT ![w] = HeldAfterBlock("tasks")]
    /\ UNCHANGED <<sync_vars, custom_vars, main_vars, channel_vars, call_vars, status_vars, ping_vars, forward_vars>>

\* the pop returned None: sleep 100 ms and start the loop again
PopEmpty(w) ==
    /\ LockFree("tasks")
    /\ pc[w] = "pop"
    /\ Len(tasks) = 0
    /\ pc' = [pc EXCEPT ![w] = "check_paused"]
    /\ UNCHANGED <<tasks, is_paused, completed_count, failed_count, current_task,
                   result_chan, task, result, submitted, dequeued, late_add,
                   confirmed_tasks>>
    /\ held' = [held EXCEPT ![w] = HeldAfterBlock("tasks")]
    /\ UNCHANGED <<sync_vars, custom_vars, main_vars, channel_vars, call_vars, status_vars, ping_vars, forward_vars>>

\* `*current = Some(task.id.clone())`
SetCurrent(w) ==
    /\ LockFree("current_task")
    /\ pc[w] = "set_current"
    /\ current_task' = task[w].id
    /\ pc' = [pc EXCEPT ![w] = "execute"]
    /\ UNCHANGED <<tasks, is_paused, completed_count, failed_count,
                   result_chan, task, result, submitted, dequeued, late_add,
                   confirmed_tasks>>
    /\ held' = [held EXCEPT ![w] = HeldAfterBlock("current_task")]
    /\ UNCHANGED <<sync_vars, custom_vars, main_vars, channel_vars, call_vars, status_vars, ping_vars, forward_vars>>

\* execute_task is entered: the command is dispatched.  Nothing before the
\* dispatch reads the task's trust_level or asks for confirmation.
ExecuteStart(w) ==
    /\ pc[w] = "execute"
    /\ pc' = [pc EXCEPT ![w] = "executing"]
    /\ UNCHANGED <<tasks, is_paused, completed_count, failed_count, current_task,
                   result_chan, task, result, submitted, dequeued, late_add,
                   confirmed_tasks, held>>
    /\ UNCHANGED <<sync_vars, custom_vars, main_vars, channel_vars, call_vars, status_vars, ping_vars, forward_vars>>

\* The outcomes of a dispatched command: Wait sleeps and returns Ok(None);
\* a Custom command can succeed or fail.
ExecOutcomes(command) ==
    IF command.type = "Wait" THEN {TRUE} ELSE BOOLEAN

\* execute_task returns: Ok and Err both become a TaskResult with the
\* task's id
ExecuteFinish(w) ==
    /\ pc[w] = "executing"
    /\ \E ok \in ExecOutcomes(task[w].command) :
          result' = [result EXCEPT ![w] = [task_id |-> task[w].id, success |-> ok]]
    /\ pc' = [pc EXCEPT ![w] = StepAfter("executing")]
    /\ UNCHANGED <<tasks, is_paused, completed_count, failed_count, current_task,
                   result_chan, task, submitted, dequeued, late_add,
                   confirmed_tasks, held>>
    /\ UNCHANGED <<sync_vars, custom_vars, main_vars, channel_vars, call_vars, status_vars, ping_vars, forward_vars>>

\* a mutant of UpdateCounters: every finished task counts as completed
UpdateCounters_completed_only(w) ==
    /\ pc[w] = "update_counters"
    /\ LockFree("completed_count")
    /\ completed_count' = completed_count + 1
    /\ held' = [held EXCEPT ![w] = HeldAfterBlock("completed_count")]
    /\ pc' = [pc EXCEPT ![w] = StepAfter("update_counters")]
    /\ UNCHANGED <<tasks, is_paused, failed_count, current_task, result_chan, task,
                   result, submitted, dequeued, late_add, confirmed_tasks>>
    /\ UNCHANGED <<sync_vars, custom_vars, main_vars, channel_vars, call_vars,
                   status_vars, ping_vars, forward_vars>>

\* `if result.success { *completed += 1 } else { *failed += 1 }`
UpdateCounters(w) ==
    /\ pc[w] = "update_counters"
    /\ IF result[w].success
       THEN /\ LockFree("completed_count")
            /\ completed_count' = completed_count + 1
            /\ held' = [held EXCEPT ![w] = HeldAfterBlock("completed_count")]
            /\ UNCHANGED failed_count
       ELSE /\ LockFree("failed_count")
            /\ failed_count' = failed_count + 1
            /\ held' = [held EXCEPT ![w] = HeldAfterBlock("failed_count")]
            /\ UNCHANGED completed_count
    /\ pc' = [pc EXCEPT ![w] = StepAfter("update_counters")]
    /\ UNCHANGED <<tasks, is_paused, current_task, result_chan, task, result,
                   submitted, dequeued, late_add, confirmed_tasks>>
    /\ UNCHANGED <<sync_vars, custom_vars, main_vars, channel_vars, call_vars, status_vars, ping_vars, forward_vars>>

\* `let _ = self.result_tx.send(result)`: the channel is unbounded and its
\* receiver lives in main's forwarding task
SendResult(w) ==
    /\ pc[w] = "send_result"
    /\ result_chan' = Append(result_chan, result[w])
    /\ pc' = [pc EXCEPT ![w] = StepAfter("send_result")]
    /\ UNCHANGED <<tasks, is_paused, completed_count, failed_count, current_task,
                   task, result, submitted, dequeued, late_add, confirmed_tasks, held>>
    /\ UNCHANGED <<sync_vars, custom_vars, main_vars, channel_vars, call_vars, status_vars, ping_vars, forward_vars>>

\* `*current = None`, then sleep(MIN_TASK_INTERVAL) and loop
ClearCurrent(w) ==
    /\ LockFree("current_task")
    /\ pc[w] = "clear_current"
    /\ current_task' = None
    /\ task' = [task EXCEPT ![w] = None]
    /\ result' = [result EXCEPT ![w] = None]
    /\ pc' = [pc EXCEPT ![w] = "check_paused"]
    /\ UNCHANGED <<tasks, is_paused, completed_count, failed_count,
                   result_chan, submitted, dequeued, late_add, confirmed_tasks>>
    /\ held' = [held EXCEPT ![w] = HeldAfterBlock("current_task")]
    /\ UNCHANGED <<sync_vars, custom_vars, main_vars, channel_vars, call_vars, status_vars, ping_vars, forward_vars>>

Process(w) ==
    \/ CheckPaused(w)
    \/ PopTask(w)
    \/ PopEmpty(w)
    \/ SetCurrent(w)
    \/ ExecuteStart(w)
    \/ ExecuteFinish(w)
    \/ UpdateCounters(w)
    \/ SendResult(w)
    \/ ClearCurrent(w)

\* AutomationQueue::new, and process() about to start its loop
QueueAtStart ==
    /\ tasks = <<>>
    /\ is_paused = FALSE
    /\ completed_count = 0
    /\ failed_count = 0
    /\ current_task = None
    /\ result_chan = <<>>
    /\ pc = [w \in Workers |-> "check_paused"]
    /\ task = [w \in Workers |-> None]
    /\ result = [w \in Workers |-> None]
    /\ held = [w \in Workers |-> {}]
    /\ submitted = 0
    /\ dequeued = <<>>
    /\ late_add = FALSE
    /\ confirmed_tasks = {}

(***************************************************************************)
(* Custom commands (queue.rs: mod custom_commands, execute_custom_command, *)
(* the Custom arm of execute_task).  A string is the sequence of its       *)
(* characters, NUL standing for the null byte; a JSON value is a record    *)
(* with its `kind`: "absent" (the key is not in the object), "number",     *)
(* "string" with its chars, "array" with its items.                        *)
(***************************************************************************)
\* `param.len() > 10000` in sanitize_param: the model's limit
MaxParamLen == 3

\* `script.len() > 50000` in execute_applescript: the model's limit
MaxScriptLen == 3

\* the items of an "args" array in the commands the model submits
MaxArgs == 2

Absent == [kind |-> "absent"]

JsonNumber == [kind |-> "number"]

JsonString(chars) == [kind |-> "string", chars |-> chars]

JsonArray(items) == [kind |-> "array", items |-> items]

\* char::is_whitespace on the characters of the model (the regex class \s
\* agrees with it on them)
is_whitespace(c) == c \in {" ", "TAB"}

\* `cmd.trim().is_empty()`
trim_is_empty(cmd) == \A i \in 1..Len(cmd) : is_whitespace(cmd[i])

\* pat occurs in str
Contains(str, pat) ==
    \E i \in 1..(Len(str) - Len(pat) + 1) :
        \A k \in 1..Len(pat) : str[i + k - 1] = pat[k]

\* the regex `>\s*&` matches in str
MatchesRedirect(str) ==
    \E i, j \in 1..Len(str) :
        /\ i < j
        /\ str[i] = ">"
        /\ str[j] = "&"
        /\ \A k \in (i + 1)..(j - 1) : is_whitespace(str[k])

\* a mutant of dangerous_pattern: the list lacks the directory traversal
dangerous_pattern_no_traversal(cmd) ==
    IF \E i \in 1..Len(cmd) : cmd[i] \in {";", "&", "|", "BACKTICK", "$"}
    THEN "[;&|BACKTICK$]"
    ELSE IF Contains(cmd, <<"$", "(">>)
    THEN "\\$\\("
    ELSE IF MatchesRedirect(cmd)
    THEN ">\\s*&"
    ELSE None

\* The loop of sanitize_command over dangerous_patterns: the first pattern
\* that matches, or None.
dangerous_pattern(cmd) ==
    IF \E i \in 1..Len(cmd) : cmd[i] \in {";", "&", "|", "BACKTICK", "$"}
    THEN "[;&|BACKTICK$]"
    ELSE IF Contains(cmd, <<"$", "(">>)
    THEN "\\$\\("
    ELSE IF Contains(cmd, <<".", ".", "/">>)
    THEN "\\.\\./"
    ELSE IF MatchesRedirect(cmd)
    THEN ">\\s*&"
    ELSE None

Ok(value) == [ok |-> TRUE, value |-> value]

Err(error) == [ok |-> FALSE, error |-> error]

\* custom_commands::sanitize_command
sanitize_command(cmd) ==
    IF trim_is_empty(cmd)
    THEN Err("Command cannot be empty")
    ELSE IF dangerous_pattern(cmd) # None
    THEN Err("Command contains dangerous pattern")
    ELSE Ok(cmd)

\* custom_commands::sanitize_param
sanitize_param(param) ==
    IF \E i \in 1..Len(param) : param[i] = "NUL"
    THEN Err("Parameter contains null byte")
    ELSE IF Len(param) > MaxParamLen
    THEN Err("Parameter exceeds maximum length")
    ELSE Ok(param)

\* `arr.iter().filter_map(|v| v.as_str().map(|s| s.to_string())).collect()`
RECURSIVE CollectStrings(_)
CollectStrings(items) ==
    IF Len(items) = 0
    THEN <<>>
    ELSE IF Head(items).kind = "string"
         THEN <<Head(items).chars>> \o CollectStrings(Tail(items))
         ELSE CollectStrings(Tail(items))

\* `args.join(" ")`
RECURSIVE Join(_)
Join(args) ==
    IF Len(args) = 0 THEN <<>>
    ELSE IF Len(args) = 1 THEN args[1]
    ELSE args[1] \o <<" ">> \o Join(Tail(args))

\* execute_shell_command: the shell of the platform and the command line
\* handed to it
ShellSpawn(os, command, args) ==
    LET full_command == IF Len(args) = 0 THEN command ELSE command \o <<" ">> \o Join(args)
    IN  [ program |-> IF os = "windows" THEN "cmd" ELSE "sh",
          shell_arg |-> IF os = "windows" THEN "/C" ELSE "-c",
          full_command |-> full_command ]

\* what the synchronous part of execute_custom_command comes to: an error
\* returned at once, a process to spawn, or a request to send
Fail(error) == [kind |-> "Err", error |-> error]

\* a mutant of custom_shell: the args are handed over unsanitized
custom_shell_unchecked_args(os, params_obj) ==
    IF params_obj.command.kind # "string"
    THEN Fail("Missing 'command' parameter")
    ELSE LET command == params_obj.command.chars
             args == IF params_obj.args.kind = "array"
                     THEN CollectStrings(params_obj.args.items) ELSE <<>>
         IN  IF ~sanitize_command(command).ok
             THEN Fail(sanitize_command(command).error)
             ELSE [kind |-> "spawn", spawn |-> ShellSpawn(os, command, args)]

\* execute_custom_command, the "shell" arm up to the await of
\* execute_shell_command
custom_shell(os, params_obj) ==
    IF params_obj.command.kind # "string"
    THEN Fail("Missing 'command' parameter")
    ELSE LET command == params_obj.command.chars
             args == IF params_obj.args.kind = "array"
                     THEN CollectStrings(params_obj.args.items) ELSE <<>>
         IN  IF ~sanitize_command(command).ok
             THEN Fail(sanitize_command(command).error)
             ELSE IF \E i \in 1..Len(args) : ~sanitize_param(args[i]).ok
             THEN LET i == CHOOSE i \in 1..Len(args) :
                              /\ ~sanitize_param(args[i]).ok
                              /\ \A k \in 1..(i - 1) : sanitize_param(args[k]).ok
                  IN  Fail(sanitize_param(args[i]).error)
             ELSE [kind |-> "spawn", spawn |-> ShellSpawn(os, command, args)]

\* execute_custom_command, the "applescript" arm with execute_applescript
\* up to the spawn of osascript; off macOS the function only returns Err
custom_applescript(os, params_obj) ==
    IF params_obj.script.kind # "string"
    THEN Fail("Missing 'script' parameter")
    ELSE LET script == params_obj.script.chars
         IN  IF os # "macos"
             THEN Fail("AppleScript is only supported on macOS")
             ELSE IF \E i \in 1..Len(script) : script[i] = "NUL"
             THEN Fail("AppleScript contains null byte")
             ELSE IF Len(script) > MaxScriptLen
             THEN Fail("AppleScript exceeds maximum length")
             ELSE [kind |-> "spawn",
                   spawn |-> [program |-> "osascript", shell_arg |-> "-e",
                              full_command |-> script]]

\* str::to_uppercase on the method names the model uses
to_uppercase(method) ==
    CASE method = "get" -> "GET"
      [] method = "post" -> "POST"
      [] OTHER -> method

\* execute_custom_command, the "http_request" arm up to the send
custom_http_request(params_obj) ==
    IF params_obj.url.kind # "string"
    THEN Fail("Missing 'url' parameter")
    ELSE LET method == IF params_obj.method.kind = "string"
                       THEN params_obj.method.chars ELSE "GET"
         IN  IF to_uppercase(method) \in {"GET", "POST", "PUT", "DELETE", "PATCH"}
             THEN [kind |-> "request",
                   request |-> [method |-> to_uppercase(method),
                                url |-> params_obj.url.chars]]
             ELSE Fail("Unsupported HTTP method")

\* a mutant of execute_custom_command: an unknown name is run as a shell
\* command
execute_custom_command_default_shell(os, name, params) ==
    IF params.kind # "object"
    THEN Fail("Custom command params must be an object")
    ELSE CASE name = "applescript" -> custom_applescript(os, params)
           [] name = "http_request" -> custom_http_request(params)
           [] OTHER -> custom_shell(os, params)

\* execute_custom_command up to its first await
execute_custom_command(os, name, params) ==
    IF params.kind # "object"
    THEN Fail("Custom command params must be an object")
    ELSE CASE name = "shell" -> custom_shell(os, params)
           [] name = "applescript" -> custom_applescript(os, params)
           [] name = "http_request" -> custom_http_request(params)
           [] OTHER -> Fail("Unknown custom command")

\* execute_task's `match result`: the TaskResult of a command that
\* returned Err(error)
FailedResult(error) == [success |-> FALSE, error |-> error, output |-> None]

\* the TaskResult of a command that returned Ok(output)
CompletedResult(output) == [success |-> TRUE, error |-> None, output |-> output]

\* The Custom commands submitted in this model: the command strings and
\* the args cover every pattern of sanitize_command and every check of
\* sanitize_param.
CommandStrings ==
    { <<>>, <<" ">>, <<"l", "s">>, <<"l", ";", "s">>, <<"l", "|", "s">>,
      <<"l", "&">>, <<"BACKTICK", "l", "BACKTICK">>, <<"$", "a">>, <<"$", "(", "a", ")">>,
      <<".", ".", "/", "a">>, <<".", "/", "a">>, <<"a", ">", " ", "&">>,
      <<"a", ">", "s">> }

ArgStrings ==
    { <<"a">>, <<";", "s">>, <<"NUL">>, [i \in 1..(MaxParamLen + 1) |-> "a"] }

ArgItems == {JsonNumber} \cup { JsonString(a) : a \in ArgStrings }

ArgArrays == UNION { [1..n -> ArgItems] : n \in 0..MaxArgs }

JsonObject(command, args, script, url, method) ==
    [ kind |-> "object", command |-> command, args |-> args, script |-> script,
      url |-> url, method |-> method ]

ShellParams ==
    { JsonObject(c, a, Absent, Absent, Absent) :
        c \in {Absent, JsonNumber} \cup { JsonString(s) : s \in CommandStrings },
        a \in {Absent, JsonNumber} \cup { JsonArray(items) : items \in ArgArrays } }

AppleScriptParams ==
    { JsonObject(Absent, Absent, s, Absent, Absent) :
        s \in { Absent, JsonString(<<"a">>), JsonString(<<"NUL">>),
                JsonString([i \in 1..(MaxScriptLen + 1) |-> "a"]) } }

HttpRequestParams ==
    { JsonObject(Absent, Absent, Absent, u, m) :
        u \in { Absent, JsonString("http://host/") },
        m \in { Absent, JsonNumber, JsonString("get"), JsonString("POST"),
                JsonString("TRACE") } }

CustomCommands ==
    ({"shell"} \X (ShellParams \cup {JsonNumber}))
        \cup ({"applescript"} \X (AppleScriptParams \cup {JsonNumber}))
        \cup ({"http_request"} \X (HttpRequestParams \cup {JsonNumber}))
        \cup ({"open_app"} \X
                { JsonNumber,
                  JsonObject(JsonString(<<"l", "s">>), Absent, JsonString(<<"a">>),
                             JsonString("http://host/"), Absent) })

\* the platforms the crate is built for
TargetOs == {"macos", "linux", "windows"}

\* execute_task on a TaskCommand::Custom: execute_custom_command runs up to
\* its first await, or returns an error, which becomes the TaskResult
ExecuteCustomCommand ==
    /\ cc_pc = "start"
    /\ LET r == execute_custom_command(cc_os, cc_name, cc_params)
       IN  CASE r.kind = "Err" ->
                   /\ cc_result' = FailedResult(r.error)
                   /\ cc_pc' = "done"
                   /\ UNCHANGED <<spawned, requests>>
             [] r.kind = "spawn" ->
                   /\ spawned' = Append(spawned, r.spawn)
                   /\ cc_pc' = "spawned"
                   /\ UNCHANGED <<cc_result, requests>>
             [] r.kind = "request" ->
                   /\ requests' = Append(requests, r.request)
                   /\ cc_pc' = "requested"
                   /\ UNCHANGED <<cc_result, spawned>>
    /\ UNCHANGED <<cc_os, cc_name, cc_params>>
    /\ UNCHANGED <<queue_vars, sync_vars, main_vars, channel_vars, call_vars, status_vars, ping_vars, forward_vars>>

\* execute_shell_command / execute_applescript after the spawn: the process
\* exits with success or not, cannot be started, or runs into the timeout
ProcessExit ==
    /\ cc_pc = "spawned"
    /\ \E outcome \in {"success", "failure", "spawn_error", "timeout"} :
          cc_result' = IF outcome = "success"
                       THEN CompletedResult("output")
                       ELSE FailedResult(outcome)
    /\ cc_pc' = "done"
    /\ UNCHANGED <<cc_os, cc_name, cc_params, spawned, requests>>
    /\ UNCHANGED <<queue_vars, sync_vars, main_vars, channel_vars, call_vars, status_vars, ping_vars, forward_vars>>

\* the "http_request" arm after the send: a response whose body is read,
\* a timeout, a request error, or a body that cannot be read
ResponseArrives ==
    /\ cc_pc = "requested"
    /\ \E outcome \in {"response", "timeout", "send_error", "body_error"} :
          cc_result' = IF outcome = "response"
                       THEN CompletedResult("output")
                       ELSE FailedResult(outcome)
    /\ cc_pc' = "done"
    /\ UNCHANGED <<cc_os, cc_name, cc_params, spawned, requests>>
    /\ UNCHANGED <<queue_vars, sync_vars, main_vars, channel_vars, call_vars, status_vars, ping_vars, forward_vars>>

\* no Custom command is being executed
CustomAtRest ==
    /\ cc_os = "linux"
    /\ cc_name = None
    /\ cc_params = Absent
    /\ cc_pc = "done"
    /\ spawned = <<>>
    /\ requests = <<>>
    /\ cc_result = None

\* main before any signal: the token is not cancelled
MainAtStart == shutdown_token = FALSE

\* AutomationSync::new, start() not yet running
ChannelAtRest ==
    /\ ws_writer = <<>>
    /\ is_connected = FALSE
    /\ ws_pc = "connect"
    /\ link = "none"
    /\ connections = 0
    /\ written = 0
    /\ last_written = None
    /\ received = 0
    /\ last_received = None
    /\ send_ret = None
    /\ send_calls = 0

\* no status() call is running and clear() was never called
StatusAtRest ==
    /\ cleared = {}
    /\ st_pc = "idle"
    /\ st_snap = <<>>
    /\ st_ret = <<>>

\* AutomationSync::new: `auth_token: None`; no ping task was spawned
PingAtRest ==
    /\ auth_token = <<>>
    /\ pingers = {}
    /\ pings = {}

\* the forwarding task waits on result_rx
ForwardAtRest ==
    /\ forwarded = 0
    /\ delivered = {}

\* no function is being called
CallAtRest ==
    /\ fn_call = [fn |-> "none"]
    /\ fn_ret = <<>>

(***************************************************************************)
(* The Remote Control Channel (automation/sync.rs).  A connection is named *)
(* by its number; ws_writer is <<>> for None and <<k>> for the sink of     *)
(* connection k.  main never calls set_auth_token (main.rs:123-128), so    *)
(* in SpecChannel connect() sends no auth frame; SpecChannelAuth is the    *)
(* channel with a token.  The ping tasks are spawned in every              *)
(* specification and wake up in SpecPing.                                  *)
(***************************************************************************)
\* the connections start() establishes in this model
MaxConnections == 2

\* the messages the read loop takes from the stream in this model
MaxReceived == 3

\* the send_result / send_status calls in this model
MaxSends == 2

NoWriter == <<>>

\* The text messages the server sends, by what
\* serde_json::from_str::<WsMessage> makes of them: the eight variants of
\* WsMessage, a `type` that is no variant, an automation_task whose task
\* does not deserialize, and text that is not JSON.
WsMessageTypes ==
    { "automation_task", "task_result", "status", "ping", "pong", "auth",
      "auth_success", "auth_error" }

UnparsableTexts == { "unknown_type", "bad_task", "not_json" }

\* the tasks an automation_task frame carries in this model
FrameTasks(id) == { NewTask(id, p, 1, [type |-> "Wait"]) : p \in {Low, Urgent} }

\* a mutant of handle_message: a task frame is logged and dropped
handle_message_drop_task(type) ==
    IF type \in UnparsableTexts
    THEN [ret |-> "Err", add |-> FALSE]
    ELSE [ret |-> "Ok", add |-> FALSE]

\* AutomationSync::handle_message: what it returns and whether it calls
\* queue.add_task; the Err of a text that does not parse is logged by the
\* read loop
handle_message(type) ==
    IF type \in UnparsableTexts
    THEN [ret |-> "Err", add |-> FALSE]
    ELSE IF type = "automation_task"
    THEN [ret |-> "Ok", add |-> TRUE]
    ELSE [ret |-> "Ok", add |-> FALSE]

\* the state of the connection the sink k writes to
LinkOf(k) == IF k = connections THEN link ELSE "closed"

\* a mutant of SendOutcome: without a writer the frame is dropped silently
SendOutcome_silent(writer, io_ok) ==
    IF writer = NoWriter
    THEN [ret |-> "Ok", written |-> FALSE]
    ELSE IF LinkOf(writer[1]) = "open" /\ io_ok
    THEN [ret |-> "Ok", written |-> TRUE]
    ELSE [ret |-> "Failed to send", written |-> FALSE]

\* send_result / send_status: `ok_or_else(|| "WebSocket not connected")?`,
\* then `writer.send(..).await.map_err(..)?`.  The sink of a connection that
\* was closed by the peer or failed refuses the frame; on an open connection
\* the write succeeds or fails with an I/O error.
SendOutcome(writer, io_ok) ==
    IF writer = NoWriter
    THEN [ret |-> "WebSocket not connected", written |-> FALSE]
    ELSE IF LinkOf(writer[1]) = "open" /\ io_ok
    THEN [ret |-> "Ok", written |-> TRUE]
    ELSE [ret |-> "Failed to send", written |-> FALSE]

\* connect(): connect_async succeeds
Connect ==
    /\ ws_pc = "connect"
    /\ connections < MaxConnections
    /\ connections' = connections + 1
    /\ link' = "open"
    /\ ws_pc' = "store_writer"
    /\ UNCHANGED <<ws_writer, is_connected, written, last_written, received,
                   last_received, send_ret, send_calls>>
    /\ UNCHANGED <<queue_vars, sync_vars, custom_vars, main_vars, call_vars, status_vars, ping_vars, forward_vars>>

\* connect(): connect_async fails and `?` returns the Err to start()
ConnectFails ==
    /\ ws_pc = "connect"
    /\ ws_pc' = "set_disconnected"
    /\ UNCHANGED <<ws_writer, is_connected, link, connections, written,
                   last_written, received, last_received, send_ret, send_calls>>
    /\ UNCHANGED <<queue_vars, sync_vars, custom_vars, main_vars, call_vars, status_vars, ping_vars, forward_vars>>

\* `*writer = Some(write)`
StoreWriter ==
    /\ ws_pc = "store_writer"
    /\ ws_writer' = <<connections>>
    /\ ws_pc' = "set_connected"
    /\ UNCHANGED <<is_connected, link, connections, written, last_written,
                   received, last_received, send_ret, send_calls>>
    /\ UNCHANGED <<queue_vars, sync_vars, custom_vars, main_vars, call_vars, status_vars, ping_vars, forward_vars>>

\* `*connected = true`; without a token no auth frame is sent: the ping
\* task of the connection is spawned and the read loop is entered
SetConnected ==
    /\ ws_pc = "set_connected"
    /\ is_connected' = TRUE
    /\ IF auth_token = <<>>
       THEN /\ pingers' = pingers \cup {connections}
            /\ ws_pc' = "read"
       ELSE /\ UNCHANGED pingers
            /\ ws_pc' = "send_auth"
    /\ UNCHANGED <<ws_writer, link, connections, written, last_written,
                   received, last_received, send_ret, send_calls>>
    /\ UNCHANGED <<auth_token, pings>>
    /\ UNCHANGED <<queue_vars, sync_vars, custom_vars, main_vars, call_vars,
                   status_vars, forward_vars>>

\* "Send authentication if token is available": the frame is written, the
\* ping task is spawned and the read loop is entered
SendAuth ==
    /\ ws_pc = "send_auth"
    /\ SendOutcome(ws_writer, TRUE).written
    /\ written' = written + 1
    /\ last_written' = [conn |-> ws_writer[1], frame |-> "auth"]
    /\ pingers' = pingers \cup {connections}
    /\ ws_pc' = "read"
    /\ UNCHANGED <<ws_writer, is_connected, link, connections, received,
                   last_received, send_ret, send_calls>>
    /\ UNCHANGED <<auth_token, pings>>
    /\ UNCHANGED <<queue_vars, sync_vars, custom_vars, main_vars, call_vars,
                   status_vars, forward_vars>>

\* the write of the auth frame fails (the peer is gone, or an I/O error):
\* `.map_err(|e| format!("Failed to send auth: {}", e))?` returns the Err
\* to start(); the statements after it in connect() are not run
SendAuthFails ==
    /\ ws_pc = "send_auth"
    /\ link' = "closed"
    /\ ws_pc' = "set_disconnected"
    /\ UNCHANGED <<ws_writer, is_connected, connections, written, last_written,
                   received, last_received, send_ret, send_calls>>
    /\ UNCHANGED <<queue_vars, sync_vars, custom_vars, main_vars, call_vars,
                   status_vars, ping_vars, forward_vars>>

\* The ping task spawned by connection k wakes up after PING_INTERVAL: it
\* locks ws_writer, which is the one handle every connection stores its sink
\* in; with a sink there it sends the ping on it and leaves the loop if the
\* send fails, without one it leaves the loop.
PingTick(k) ==
    /\ k \in pingers
    /\ \E io_ok \in BOOLEAN :
          IF SendOutcome(ws_writer, io_ok).written
          THEN /\ pings' = pings \cup {[by |-> k, conn |-> ws_writer[1]]}
               /\ UNCHANGED pingers
          ELSE /\ pingers' = pingers \ {k}
               /\ UNCHANGED pings
    /\ UNCHANGED auth_token
    /\ UNCHANGED <<queue_vars, sync_vars, custom_vars, main_vars, channel_vars,
                   call_vars, status_vars, forward_vars>>

\* the read loop takes Message::Text: handle_message, whose Err is logged
ReadText ==
    /\ ws_pc = "read"
    /\ link = "open"
    /\ received < MaxReceived
    /\ \E type \in WsMessageTypes \cup UnparsableTexts :
          IF handle_message(type).add
          THEN /\ submitted < MaxTasks
               /\ \E t \in FrameTasks(submitted + 1) :
                     /\ add_task(t)
                     /\ last_received' = [type |-> type, task |-> t]
          ELSE /\ last_received' = [type |-> type]
               /\ UNCHANGED queue_vars
    /\ received' = received + 1
    /\ UNCHANGED <<ws_writer, is_connected, ws_pc, link, connections, written,
                   last_written, send_ret, send_calls>>
    /\ UNCHANGED <<sync_vars, custom_vars, main_vars, call_vars, status_vars, ping_vars, forward_vars>>

\* the read loop takes Message::Ping and answers with a Pong
\* (`let _ = w.send(..)`), or takes a message of the `_ => {}` arm
ReadControl ==
    /\ ws_pc = "read"
    /\ link = "open"
    /\ received < MaxReceived
    /\ \E type \in {"Ping", "Pong", "Binary"}, io_ok \in BOOLEAN :
          /\ last_received' = [type |-> type]
          /\ IF type = "Ping" /\ SendOutcome(ws_writer, io_ok).written
             THEN /\ written' = written + 1
                  /\ last_written' = [conn |-> ws_writer[1], frame |-> "Pong"]
             ELSE UNCHANGED <<written, last_written>>
    /\ received' = received + 1
    /\ UNCHANGED <<ws_writer, is_connected, ws_pc, link, connections,
                   send_ret, send_calls>>
    /\ UNCHANGED <<queue_vars, sync_vars, custom_vars, main_vars, call_vars, status_vars, ping_vars, forward_vars>>

\* the read loop takes Message::Close or an Err, or the stream ends: the
\* loop is left
ReadClose ==
    /\ ws_pc = "read"
    /\ link = "open"
    /\ \E type \in {"Close", "Err", "End"} : last_received' = [type |-> type]
    /\ link' = "closed"
    /\ ws_pc' = "clear_writer"
    /\ UNCHANGED <<ws_writer, is_connected, connections, written, last_written,
                   received, send_ret, send_calls>>
    /\ UNCHANGED <<queue_vars, sync_vars, custom_vars, main_vars, call_vars, status_vars, ping_vars, forward_vars>>

\* "Clear write handle on disconnect": `*writer = None`, connect() returns
ClearWriter ==
    /\ ws_pc = "clear_writer"
    /\ ws_writer' = NoWriter
    /\ ws_pc' = "set_disconnected"
    /\ UNCHANGED <<is_connected, link, connections, written, last_written,
                   received, last_received, send_ret, send_calls>>
    /\ UNCHANGED <<queue_vars, sync_vars, custom_vars, main_vars, call_vars, status_vars, ping_vars, forward_vars>>

\* start(): `*connected = false`, sleep(RECONNECT_DELAY), connect again
SetDisconnected ==
    /\ ws_pc = "set_disconnected"
    /\ is_connected' = FALSE
    /\ link' = "none"
    /\ ws_pc' = "connect"
    /\ UNCHANGED <<ws_writer, connections, written, last_written, received,
                   last_received, send_ret, send_calls>>
    /\ UNCHANGED <<queue_vars, sync_vars, custom_vars, main_vars, call_vars, status_vars, ping_vars, forward_vars>>

\* the body send_result and send_status share, under the ws_writer lock
Send(frame) ==
    /\ send_calls' = send_calls + 1
    /\ \E io_ok \in BOOLEAN :
          LET out == SendOutcome(ws_writer, io_ok)
          IN  /\ send_ret' = out.ret
              /\ IF out.written
                 THEN /\ written' = written + 1
                      /\ last_written' = [conn |-> ws_writer[1], frame |-> frame]
                 ELSE UNCHANGED <<written, last_written>>
    /\ UNCHANGED <<ws_writer, is_connected, ws_pc, link, connections, received,
                   last_received>>
    /\ UNCHANGED <<queue_vars, sync_vars, custom_vars, main_vars, call_vars, status_vars, ping_vars, forward_vars>>

\* AutomationSync::send_result
send_result ==
    /\ send_calls < MaxSends
    /\ Send("task_result")

\* AutomationSync::send_status
send_status ==
    /\ send_calls < MaxSends
    /\ Send("status")

\* A forwarding task that holds a result whose send failed and offers it
\* again: the result counts as taken only once it was written.
ForwardResult_holds ==
    /\ forwarded < Len(result_chan)
    /\ send_calls < MaxSends
    /\ send_calls' = send_calls + 1
    /\ \E io_ok \in BOOLEAN :
          LET out == SendOutcome(ws_writer, io_ok)
              id == result_chan[forwarded + 1].task_id
          IN  /\ send_ret' = out.ret
              /\ IF out.written
                 THEN /\ forwarded' = forwarded + 1
                      /\ written' = written + 1
                      /\ last_written' = [conn |-> ws_writer[1], frame |-> "task_result"]
                      /\ delivered' = delivered \cup {id}
                 ELSE UNCHANGED <<forwarded, written, last_written, delivered>>
    /\ UNCHANGED <<ws_writer, is_connected, ws_pc, link, connections, received,
                   last_received>>
    /\ UNCHANGED <<queue_vars, sync_vars, custom_vars, main_vars, call_vars,
                   status_vars, ping_vars>>

\* main's forwarding task: `while let Some(result) = result_rx.recv().await`
\* takes the next result off the channel and calls send_result once; an Err
\* is printed and the loop goes on to the next result.  Nothing is kept.
ForwardResult ==
    /\ forwarded < Len(result_chan)
    /\ forwarded' = forwarded + 1
    /\ send_calls' = send_calls + 1
    /\ \E io_ok \in BOOLEAN :
          LET out == SendOutcome(ws_writer, io_ok)
              id == result_chan[forwarded + 1].task_id
          IN  /\ send_ret' = out.ret
              /\ IF out.written
                 THEN /\ written' = written + 1
                      /\ last_written' = [conn |-> ws_writer[1], frame |-> "task_result"]
                      /\ delivered' = delivered \cup {id}
                 ELSE UNCHANGED <<written, last_written, delivered>>
    /\ UNCHANGED <<ws_writer, is_connected, ws_pc, link, connections, received,
                   last_received>>
    /\ UNCHANGED <<queue_vars, sync_vars, custom_vars, main_vars, call_vars,
                   status_vars, ping_vars>>

(***************************************************************************)
(* Calls of the pure functions of trust.rs, on arguments drawn at the      *)
(* start.                                                                  *)
(***************************************************************************)
\* The texts of Type commands: ASCII texts have one byte per character,
\* the others are taken with two bytes per character (Cyrillic, say).
Texts ==
    { [chars |-> n, bytes |-> n * w, newline |-> nl] :
        n \in {0, 1, 50, 51, 100, 101}, w \in {1, 2}, nl \in BOOLEAN }
      \ { [chars |-> 0, bytes |-> 0, newline |-> TRUE] }

\* the modifier names of Hotkey commands: the five the code takes for a
\* control or command key, two others it knows, one it does not
ModifierNames ==
    {"ctrl", "control", "cmd", "command", "meta", "alt", "shift", "Ctrl"}

HotkeyKeys ==
    {"q", "Q", "w", "W", "delete", "Delete", "backspace", "escape", "Escape",
     "a", "A", "tab"}

\* one command of every variant of TaskCommand
TaskCommands ==
    { [type |-> t] : t \in {"Screenshot", "BrowserGetUrl", "Wait", "Click",
                            "BrowserNavigate"} }
      \cup { [type |-> "Type", text |-> x] : x \in Texts }
      \cup { [type |-> "Hotkey", modifiers |-> ms, key |-> k] :
               ms \in { m \in SUBSET ModifierNames : Cardinality(m) <= 2 },
               k \in HotkeyKeys }
      \cup { [type |-> "Custom", name |-> n] :
               n \in {"shell", "applescript", "http_request", "open_app"} }

TrustCalls ==
    { [fn |-> "requires_confirmation", level |-> l, danger |-> d] :
        l \in TrustLevel, d \in DangerLevel }
      \cup { [fn |-> "classify_command_danger", command |-> c] : c \in TaskCommands }

\* level.requires_confirmation(danger) is called
CallRequiresConfirmation ==
    /\ fn_call.fn = "requires_confirmation"
    /\ fn_ret = <<>>
    /\ fn_ret' = <<requires_confirmation(fn_call.level, fn_call.danger)>>
    /\ UNCHANGED fn_call
    /\ UNCHANGED <<queue_vars, sync_vars, custom_vars, main_vars, channel_vars, status_vars, ping_vars, forward_vars>>

\* classify_command_danger(&command) is called
CallClassifyCommandDanger ==
    /\ fn_call.fn = "classify_command_danger"
    /\ fn_ret = <<>>
    /\ fn_ret' = <<classify_command_danger(fn_call.command)>>
    /\ UNCHANGED fn_call
    /\ UNCHANGED <<queue_vars, sync_vars, custom_vars, main_vars, channel_vars, status_vars, ping_vars, forward_vars>>

(***************************************************************************)
(* Calls of sanitize_command on every string of a small alphabet.          *)
(***************************************************************************)
\* the length of the strings sanitize_command is called on
MaxCommandLen == 3

\* a letter, the two whitespace characters, and every character that
\* occurs in a pattern of dangerous_patterns
CommandAlphabet ==
    {"a", " ", "TAB", ";", "&", "|", "BACKTICK", "$", "(", ".", "/", ">"}

SanitizeCalls ==
    { [fn |-> "sanitize_command", cmd |-> c] :
        c \in UNION { [1..n -> CommandAlphabet] : n \in 0..MaxCommandLen } }

\* custom_commands::sanitize_command(cmd) is called
CallSanitizeCommand ==
    /\ fn_call.fn = "sanitize_command"
    /\ fn_ret = <<>>
    /\ fn_ret' = <<sanitize_command(fn_call.cmd)>>
    /\ UNCHANGED fn_call
    /\ UNCHANGED <<queue_vars, sync_vars, custom_vars, main_vars, channel_vars, status_vars, ping_vars, forward_vars>>

(***************************************************************************)
(* validate_url (sync.rs:49-165).  A URL is what Url::parse makes of the   *)
(* string: a scheme, a host (url::Host: a domain as its labels, an IPv4    *)
(* address as its octets, an IPv6 address as its segments) and the port    *)
(* written in the string, <<>> when none is.  A string Url::parse rejects  *)
(* is the value Unparsable.                                                *)
(***************************************************************************)
Unparsable == [parsed |-> FALSE]

Url(scheme, host, port) ==
    [parsed |-> TRUE, scheme |-> scheme, host |-> host, port |-> port]

Domain(labels) == [kind |-> "Domain", labels |-> labels]

Ipv4(octets) == [kind |-> "Ipv4", octets |-> octets]

Ipv6(segments) == [kind |-> "Ipv6", segments |-> segments]

\* Url::host_str: the host as it is serialized in the URL: the domain, the
\* dotted octets, or the IPv6 address between brackets
host_str(url) ==
    CASE url.host.kind = "Domain" -> [form |-> "name", labels |-> url.host.labels]
      [] url.host.kind = "Ipv4" -> [form |-> "dotted", octets |-> url.host.octets]
      [] url.host.kind = "Ipv6" -> [form |-> "bracketed", segments |-> url.host.segments]

\* Url::port: None when the port is absent or the default of the scheme
default_port(scheme) ==
    CASE scheme = "http" -> <<80>>
      [] scheme = "ws" -> <<80>>
      [] scheme = "https" -> <<443>>
      [] scheme = "ftp" -> <<21>>

port(url) == IF url.port = default_port(url.scheme) THEN <<>> ELSE url.port

\* `host.parse::<IpAddr>()`: IpAddr::from_str takes dotted octets or bare
\* IPv6 text; a name and an address between brackets are errors
parse_ip_addr(host) ==
    IF host.form = "dotted"
    THEN [ok |-> TRUE, value |-> [version |-> "V4", octets |-> host.octets]]
    ELSE [ok |-> FALSE, error |-> "invalid IP address syntax"]

\* a mutant of is_internal_ip: the private ranges are not looked at
is_internal_ip_no_private(ip) ==
    IF ip.version = "V4"
    THEN \/ ip.octets[1] = 127
         \/ (ip.octets[1] = 169 /\ ip.octets[2] = 254)
         \/ ip.octets[1] >= 224
    ELSE \/ ip.segments = <<0, 0, 0, 0, 0, 0, 0, 1>>
         \/ ip.segments[1] \div 64 = 65152 \div 64
         \/ ip.segments[1] \div 256 = 255

\* is_internal_ip; `x & 0xffc0 == 0xfe80` compares x without its low 6
\* bits, `x & 0xfe00 == 0xfc00` without its low 9 bits, and is_multicast is
\* `x & 0xff00 == 0xff00`
is_internal_ip(ip) ==
    IF ip.version = "V4"
    THEN \/ ip.octets[1] = 127
         \/ ip.octets[1] = 10
         \/ (ip.octets[1] = 172 /\ ip.octets[2] \in 16..31)
         \/ (ip.octets[1] = 192 /\ ip.octets[2] = 168)
         \/ (ip.octets[1] = 169 /\ ip.octets[2] = 254)
         \/ ip.octets[1] >= 224
    ELSE \/ ip.segments = <<0, 0, 0, 0, 0, 0, 0, 1>>
         \/ ip.segments[1] \div 64 = 65152 \div 64
         \/ ip.segments[1] \div 512 = 64512 \div 512
         \/ ip.segments[1] \div 256 = 255

\* the `is_localhost` of the http arm: host == "localhost", "127.0.0.1" or
\* "[::1]", or host.starts_with("127.") or ("localhost:"); no host string
\* holds a colon outside brackets, so the last never matches
is_localhost(host) ==
    \/ (host.form = "name" /\ host.labels = <<"localhost">>)
    \/ (host.form = "dotted" /\ host.octets = <<127, 0, 0, 1>>)
    \/ (host.form = "bracketed" /\ host.segments = <<0, 0, 0, 0, 0, 0, 0, 1>>)
    \/ (host.form = "dotted" /\ host.octets[1] = 127)
    \/ (host.form = "name" /\ Len(host.labels) > 1 /\ host.labels[1] = "127")

BLOCKED_PORTS == {0, 25, 110, 143, 465, 587, 993, 995}

\* validate_url, with what is_dev_mode() returns
validate_url(url, is_dev) ==
    IF ~url.parsed
    THEN Err("Invalid URL")
    ELSE IF url.scheme \notin {"https", "http"}
    THEN Err("Invalid URL scheme: only http and https are allowed")
    ELSE IF url.scheme = "http" /\ ~is_dev /\ ~is_localhost(host_str(url))
    THEN Err("HTTP URLs are only allowed for localhost in production mode")
    ELSE IF /\ ~is_dev
            /\ parse_ip_addr(host_str(url)).ok
            /\ is_internal_ip(parse_ip_addr(host_str(url)).value)
    THEN Err("Access to internal IP address is not allowed in production mode")
    ELSE IF port(url) # <<>> /\ port(url)[1] \in BLOCKED_PORTS
    THEN Err("Port is not allowed")
    ELSE Ok(url)

\* The URLs validate_url is called on: domains that are and are not the
\* local machine, IPv4 addresses on both sides of every range of
\* is_internal_ip, IPv6 addresses on both sides of every one of its masks.
UrlHosts ==
    { Domain(l) : l \in { <<"localhost">>, <<"example", "com">>,
                          <<"127", "evil", "com">>,
                          <<"localhost", "evil", "com">> } }
      \cup { Ipv4(<<a, b, 0, 1>>) : a \in {8, 10, 127, 169, 172, 192, 223, 224},
                                     b \in {0, 15, 16, 31, 32, 168, 254} }
      \cup { Ipv6(<<a, 0, 0, 0, 0, 0, 0, z>>) :
               a \in {0, 8193, 64511, 64512, 65023, 65024, 65152, 65215, 65216,
                      65280, 65282},
               z \in {1, 2} }

UrlPorts == { <<>>, <<25>>, <<80>>, <<443>>, <<8000>> }

Urls ==
    {Unparsable}
      \cup { Url(s, h, p) : s \in {"https", "http", "ws", "ftp"},
                            h \in UrlHosts, p \in UrlPorts }

UrlCalls ==
    { [fn |-> "validate_url", url |-> u, is_dev |-> d] : u \in Urls, d \in BOOLEAN }

\* validate_url(url_str) is called
CallValidateUrl ==
    /\ fn_call.fn = "validate_url"
    /\ fn_ret = <<>>
    /\ fn_ret' = <<validate_url(fn_call.url, fn_call.is_dev)>>
    /\ UNCHANGED fn_call
    /\ UNCHANGED <<queue_vars, sync_vars, custom_vars, main_vars, channel_vars, status_vars, ping_vars, forward_vars>>

(***************************************************************************)
(* The event buffer and the sync engine (sync.rs, collector/mod.rs,        *)
(* main.rs, db.rs).  An event is its id; ids are UUIDs, so the k-th event  *)
(* created is given the id k.  The store's insert and delete succeed.      *)
(***************************************************************************)
\* sync.rs MAX_RETRIES
MAX_RETRIES == 3

\* start_sync_service, spawned once by main, and manual_sync, called by
\* the sync_now command
SyncProcs == {"periodic", "manual"}

\* the ids of a sequence of events
Ids(evs) == { evs[i] : i \in 1..Len(evs) }

NoReturn == [ret |-> "None", ids |-> {}]

\* what one POST of the batch can come back with: a 2xx response whose
\* body parses as SyncResponse, a 2xx response whose body does not, a 5xx
\* status, any other status, a timeout or connection error, any other
\* request error
ResponseKinds ==
    {"success_acked", "success_unparsable", "server_error", "client_error",
     "transient_error", "fatal_error"}

\* a mutant of UnparsableAcks: an unparsable response acknowledges nothing
UnparsableAcks_none(evs) == {}

\* `return Ok(events.iter().map(|e| e.id.clone()).collect())`
UnparsableAcks(evs) == Ids(evs)

\* a transient failure: `status.is_server_error()`, or is_transient_error
\* of the request error
TransientKinds == {"server_error", "transient_error"}

\* a mutant of sync_events_attempt: the retry test is `attempt <= MAX_RETRIES`
sync_events_attempt_off_by_one(evs, att, kind, acked) ==
    CASE kind = "success_acked" -> [ret |-> "Ok", ids |-> acked]
      [] kind = "success_unparsable" -> [ret |-> "Ok", ids |-> UnparsableAcks(evs)]
      [] kind \in TransientKinds ->
            IF att <= MAX_RETRIES
            THEN [ret |-> "continue", ids |-> {}]
            ELSE [ret |-> "Err", ids |-> {}]
      [] kind \in {"client_error", "fatal_error"} -> [ret |-> "Err", ids |-> {}]

\* a mutant of sync_events_attempt: every failure is retried
sync_events_attempt_retry_all(evs, att, kind, acked) ==
    CASE kind = "success_acked" -> [ret |-> "Ok", ids |-> acked]
      [] kind = "success_unparsable" -> [ret |-> "Ok", ids |-> UnparsableAcks(evs)]
      [] OTHER ->
            IF att < MAX_RETRIES
            THEN [ret |-> "continue", ids |-> {}]
            ELSE [ret |-> "Err", ids |-> {}]

\* One iteration of sync_events' retry loop after the POST came back:
\* what the function returns, or "continue" for the next attempt.
sync_events_attempt(evs, att, kind, acked) ==
    CASE kind = "success_acked" -> [ret |-> "Ok", ids |-> acked]
      [] kind = "success_unparsable" -> [ret |-> "Ok", ids |-> UnparsableAcks(evs)]
      [] kind \in {"server_error", "transient_error"} ->
            IF att < MAX_RETRIES
            THEN [ret |-> "continue", ids |-> {}]
            ELSE [ret |-> "Err", ids |-> {}]
      [] kind \in {"client_error", "fatal_error"} -> [ret |-> "Err", ids |-> {}]

\* sync.rs INITIAL_RETRY_DELAY_MS
INITIAL_RETRY_DELAY_MS == 1000

\* a mutant of RetryDelayMs: the same delay before every retry
RetryDelayMs_fixed(att) == INITIAL_RETRY_DELAY_MS

\* `INITIAL_RETRY_DELAY_MS * 2_u64.pow(attempt - 1)`, computed for
\* attempt >= 1; far below 2^64 for the attempts the loop makes
RetryDelayMs(att) == INITIAL_RETRY_DELAY_MS * 2 ^ (att - 1)

\* a mutant of BufferAfterSnapshot: the buffer is drained, not cloned
BufferAfterSnapshot_drain(buf) == <<>>

\* `events = state.events_buffer.clone()` leaves the buffer as it is
BufferAfterSnapshot(buf) == buf

\* a mutant of RetainUnacked: a successful sync clears the whole buffer
RetainUnacked_clear(buf, acked) == <<>>

\* a mutant of RetainUnacked: the retain predicate is inverted
RetainUnacked_inverted(buf, acked) ==
    SelectSeq(buf, LAMBDA e : e \in acked)

\* `state.events_buffer.retain(|e| !acked_set.contains(&e.id))`
RetainUnacked(buf, acked) == SelectSeq(buf, LAMBDA e : e \notin acked)

\* a mutant of delete_events: nothing is deleted
delete_events_skipped(store, ids) == store

\* EventDatabase::delete_events
delete_events(store, ids) == store \ ids

\* EventDatabase::load_all_events: the stored events, `ORDER BY created_at
\* ASC`, which is the order of their creation
RECURSIVE load_all_events(_)
load_all_events(store) ==
    IF store = {}
    THEN <<>>
    ELSE LET last == CHOOSE e \in store : \A o \in store : o <= e
         IN  Append(load_all_events(store \ {last}), last)

\* The ghost high_water after a step that logged the high-water warning or
\* not and left the buffer as buf.
HighWaterAfter(hw, logged, buf) ==
    IF hw = "unobserved"
    THEN hw
    ELSE IF logged
         THEN IF hw = "quiet" THEN "warned" ELSE "warned_again"
         ELSE IF Len(buf) < BUFFER_WARNING_THRESHOLD \div 2 THEN "quiet" ELSE hw

\* start_collector, "SAVE TO DATABASE AND BUFFER", under the state lock:
\* the capacity check drops the oldest buffered event, the warning is
\* logged once per crossing, the event is inserted in the store and pushed
\* on the buffer.  The push is in the sleep branch of the loop's select!,
\* which is left for good once the shutdown token is cancelled.
CollectorPush ==
    /\ ~shutdown_token
    /\ next_event < MaxEvents
    /\ state_lock = None
    /\ LET id == next_event + 1
           buffer_size == Len(events_buffer)
           kept == IF buffer_size >= MAX_BUFFER_SIZE
                   THEN Tail(events_buffer) ELSE events_buffer
           warn == buffer_size >= BUFFER_WARNING_THRESHOLD /\ ~buffer_warnings_logged
           logged == IF warn THEN TRUE ELSE buffer_warnings_logged
       IN  /\ evicted' = IF buffer_size >= MAX_BUFFER_SIZE
                         THEN evicted \cup {Head(events_buffer)} ELSE evicted
           /\ buffer_warnings_logged' =
                 IF buffer_size < BUFFER_WARNING_THRESHOLD \div 2 THEN FALSE ELSE logged
           /\ db' = db \cup {id}
           /\ events_buffer' = Append(kept, id)
           /\ high_water' = HighWaterAfter(high_water, warn, Append(kept, id))
           /\ next_event' = id
    /\ state_lock' = None
    /\ UNCHANGED <<spc, events, attempt, response, sync_ret, posts, delays, retired>>
    /\ UNCHANGED <<queue_vars, custom_vars, main_vars, channel_vars, call_vars, status_vars, ping_vars, forward_vars>>

\* start_collector, the browser_input branch: the same push, with the
\* capacity check and without the warning
BrowserInputPush ==
    /\ next_event < MaxEvents
    /\ state_lock = None
    /\ LET id == next_event + 1
           buffer_size == Len(events_buffer)
           kept == IF buffer_size >= MAX_BUFFER_SIZE
                   THEN Tail(events_buffer) ELSE events_buffer
       IN  /\ evicted' = IF buffer_size >= MAX_BUFFER_SIZE
                         THEN evicted \cup {Head(events_buffer)} ELSE evicted
           /\ db' = db \cup {id}
           /\ events_buffer' = Append(kept, id)
           /\ high_water' = HighWaterAfter(high_water, FALSE, Append(kept, id))
           /\ next_event' = id
    /\ state_lock' = None
    /\ UNCHANGED <<spc, events, attempt, response, sync_ret, posts, delays,
                   buffer_warnings_logged, retired>>
    /\ UNCHANGED <<queue_vars, custom_vars, main_vars, channel_vars, call_vars, status_vars, ping_vars, forward_vars>>

\* a mutant of LockAfterSnapshot: the guard lives on after the block
LockAfterSnapshot_held(p) == p

\* the guard `state` of the snapshot block is dropped where the block ends
LockAfterSnapshot(p) == None

\* The first lock block of start_sync_service and of manual_sync: with an
\* empty buffer the cycle ends here, else the buffer is cloned.
SyncSnapshot(p) ==
    /\ spc[p] = "idle"
    /\ state_lock = None
    /\ IF Len(events_buffer) = 0
       THEN UNCHANGED <<events_buffer, spc, events, attempt, response, sync_ret,
                        posts, delays, state_lock>>
       ELSE /\ events' = [events EXCEPT ![p] = events_buffer]
            /\ events_buffer' = BufferAfterSnapshot(events_buffer)
            /\ attempt' = [attempt EXCEPT ![p] = 0]
            /\ response' = [response EXCEPT ![p] = None]
            /\ sync_ret' = [sync_ret EXCEPT ![p] = NoReturn]
            /\ posts' = [posts EXCEPT ![p] = 0]
            /\ delays' = [delays EXCEPT ![p] = <<>>]
            /\ spc' = [spc EXCEPT ![p] = "send"]
            /\ state_lock' = LockAfterSnapshot(p)
    /\ UNCHANGED <<db, buffer_warnings_logged, next_event, evicted, retired, high_water>>
    /\ UNCHANGED <<queue_vars, custom_vars, main_vars, channel_vars, call_vars, status_vars, ping_vars, forward_vars>>

\* sync_events: one iteration of the retry loop, which sleeps the backoff
\* delay when it is a retry, sends the POST and decides on what came back.
\* The server acknowledges ids of the batch it was sent.  No lock is taken.
SyncAttempt(p) ==
    /\ spc[p] = "send"
    /\ delays' = [delays EXCEPT ![p] =
                    IF attempt[p] > 0
                    THEN Append(delays[p], RetryDelayMs(attempt[p]))
                    ELSE delays[p]]
    /\ posts' = [posts EXCEPT ![p] = posts[p] + 1]
    /\ \E kind \in ResponseKinds :
       \E acked \in (IF kind = "success_acked" THEN SUBSET Ids(events[p]) ELSE {{}}) :
          LET r == sync_events_attempt(events[p], attempt[p], kind, acked)
          IN  /\ response' = [response EXCEPT ![p] = kind]
              /\ IF r.ret = "continue"
                 THEN /\ attempt' = [attempt EXCEPT ![p] = attempt[p] + 1]
                      /\ UNCHANGED <<spc, sync_ret>>
                 ELSE /\ sync_ret' = [sync_ret EXCEPT ![p] = r]
                      /\ spc' = [spc EXCEPT ![p] = "done"]
                      /\ UNCHANGED attempt
    /\ UNCHANGED <<events_buffer, db, events, buffer_warnings_logged, state_lock,
                   next_event, evicted, retired, high_water>>
    /\ UNCHANGED <<queue_vars, custom_vars, main_vars, channel_vars, call_vars, status_vars, ping_vars, forward_vars>>

\* a mutant of SyncApply: the loop is left when sync_events fails
SyncApply_stops_on_error(p) ==
    /\ spc[p] = "done"
    /\ (sync_ret[p].ret = "Ok" \/ p = "periodic") => state_lock = None
    /\ IF sync_ret[p].ret = "Ok"
       THEN /\ events_buffer' = RetainUnacked(events_buffer, sync_ret[p].ids)
            /\ db' = delete_events(db, sync_ret[p].ids)
            /\ retired' = retired \cup sync_ret[p].ids
            /\ high_water' = HighWaterAfter(high_water, FALSE,
                                RetainUnacked(events_buffer, sync_ret[p].ids))
       ELSE /\ UNCHANGED <<events_buffer, db, retired>>
            /\ high_water' = HighWaterAfter(high_water,
                                p = "periodic"
                                    /\ Len(events_buffer) >= BUFFER_WARNING_THRESHOLD,
                                events_buffer)
    /\ spc' = [spc EXCEPT ![p] = IF sync_ret[p].ret = "Ok" THEN "idle" ELSE "stopped"]
    /\ UNCHANGED <<events, attempt, response, sync_ret, posts, delays,
                   buffer_warnings_logged, state_lock, next_event, evicted>>
    /\ UNCHANGED <<queue_vars, custom_vars, main_vars, channel_vars, call_vars, status_vars, ping_vars, forward_vars>>

\* The match on sync_events' result: Ok takes the state lock and removes
\* the acknowledged ids from the buffer and the store; Err removes nothing,
\* and in the periodic loop takes the lock to log the high-water warning
\* when the buffer is over the threshold.
SyncApply(p) ==
    /\ spc[p] = "done"
    /\ (sync_ret[p].ret = "Ok" \/ p = "periodic") => state_lock = None
    /\ IF sync_ret[p].ret = "Ok"
       THEN /\ events_buffer' = RetainUnacked(events_buffer, sync_ret[p].ids)
            /\ db' = delete_events(db, sync_ret[p].ids)
            /\ retired' = retired \cup sync_ret[p].ids
            /\ high_water' = HighWaterAfter(high_water, FALSE,
                                RetainUnacked(events_buffer, sync_ret[p].ids))
       ELSE /\ UNCHANGED <<events_buffer, db, retired>>
            /\ high_water' = HighWaterAfter(high_water,
                                p = "periodic"
                                    /\ Len(events_buffer) >= BUFFER_WARNING_THRESHOLD,
                                events_buffer)
    /\ spc' = [spc EXCEPT ![p] = "idle"]
    /\ UNCHANGED <<events, attempt, response, sync_ret, posts, delays,
                   buffer_warnings_logged, state_lock, next_event, evicted>>
    /\ UNCHANGED <<queue_vars, custom_vars, main_vars, channel_vars, call_vars, status_vars, ping_vars, forward_vars>>

\* the sync tasks between two cycles, and the histories of a fresh run
SyncTasksAtRest ==
    /\ spc = [p \in SyncProcs |-> "idle"]
    /\ events = [p \in SyncProcs |-> <<>>]
    /\ attempt = [p \in SyncProcs |-> 0]
    /\ response = [p \in SyncProcs |-> None]
    /\ sync_ret = [p \in SyncProcs |-> NoReturn]
    /\ posts = [p \in SyncProcs |-> 0]
    /\ delays = [p \in SyncProcs |-> <<>>]
    /\ buffer_warnings_logged = FALSE
    /\ state_lock = None
    /\ evicted = {}
    /\ retired = {}

\* The application is stopped and started again: main builds a new
\* AppState around the events the store holds.
Restart ==
    /\ events_buffer' = load_all_events(db)
    /\ spc' = [p \in SyncProcs |-> "idle"]
    /\ events' = [p \in SyncProcs |-> <<>>]
    /\ attempt' = [p \in SyncProcs |-> 0]
    /\ response' = [p \in SyncProcs |-> None]
    /\ sync_ret' = [p \in SyncProcs |-> NoReturn]
    /\ posts' = [p \in SyncProcs |-> 0]
    /\ delays' = [p \in SyncProcs |-> <<>>]
    /\ buffer_warnings_logged' = FALSE
    /\ state_lock' = None
    /\ evicted' = {}
    /\ retired' = {}
    /\ high_water' = HighWaterAfter("quiet", FALSE, load_all_events(db))
    /\ UNCHANGED <<db, next_event>>
    /\ UNCHANGED <<queue_vars, custom_vars, main_vars, channel_vars, call_vars, status_vars, ping_vars, forward_vars>>

\* the sync engine at rest, before any event exists
SyncAtRest ==
    /\ events_buffer = <<>>
    /\ db = {}
    /\ next_event = 0
    /\ SyncTasksAtRest
    /\ high_water = "unobserved"

\* main: the buffer starts as load_all_events() of the store, whatever
\* number of events an earlier run left there
InitSync ==
    /\ QueueAtStart
    /\ CustomAtRest
    /\ MainAtStart
    /\ ChannelAtRest
    /\ StatusAtRest
    /\ PingAtRest
    /\ ForwardAtRest
    /\ CallAtRest
    /\ \E n \in 0..MaxEvents :
          /\ events_buffer = [i \in 1..n |-> i]
          /\ db = 1..n
          /\ next_event = n
    /\ SyncTasksAtRest
    /\ high_water = "unobserved"

NextSync ==
    \/ CollectorPush
    \/ BrowserInputPush
    \/ \E p \in SyncProcs : SyncSnapshot(p)
    \/ \E p \in SyncProcs : SyncAttempt(p)
    \/ \E p \in SyncProcs : SyncApply(p)

SpecSync == InitSync /\ [][NextSync]_vars

\* The periodic loop alone, under fair scheduling: the loop wakes up every
\* SYNC_INTERVAL_SECS, every request comes back or times out, and the state
\* lock is held for a block at a time, so the loop's next step is always
\* taken in the end.  The collector and the server are under no obligation.
InitSyncFair == InitSync

NextSyncFair ==
    \/ CollectorPush
    \/ BrowserInputPush
    \/ SyncSnapshot("periodic")
    \/ SyncAttempt("periodic")
    \/ SyncApply("periodic")

FairSync ==
    WF_sync_vars(\/ SyncSnapshot("periodic")
                 \/ SyncAttempt("periodic")
                 \/ SyncApply("periodic"))

SpecSyncFair == InitSyncFair /\ [][NextSyncFair]_vars /\ FairSync

\* A first run of the application on an empty store, the history of the
\* high-water warnings kept; the user never asks for a manual sync.
InitBuffer ==
    /\ QueueAtStart
    /\ CustomAtRest
    /\ MainAtStart
    /\ ChannelAtRest
    /\ StatusAtRest
    /\ PingAtRest
    /\ ForwardAtRest
    /\ CallAtRest
    /\ events_buffer = <<>>
    /\ db = {}
    /\ next_event = 0
    /\ SyncTasksAtRest
    /\ high_water = "quiet"

NextBuffer ==
    \/ CollectorPush
    \/ BrowserInputPush
    \/ SyncSnapshot("periodic")
    \/ SyncAttempt("periodic")
    \/ SyncApply("periodic")
    \/ Restart

SpecBuffer == InitBuffer /\ [][NextBuffer]_vars

\* the state main builds before the queue's tasks run
InitQueue ==
    /\ QueueAtStart
    /\ SyncAtRest
    /\ CustomAtRest
    /\ MainAtStart
    /\ ChannelAtRest
    /\ StatusAtRest
    /\ PingAtRest
    /\ ForwardAtRest
    /\ CallAtRest

\* setup_signal_handlers: SIGTERM or SIGINT (CTRL+C on Windows) arrives and
\* the token is cancelled.  The token was handed to start_collector only
\* (main.rs:103-121): process() has no shutdown branch.
ShutdownSignal ==
    /\ ~shutdown_token
    /\ shutdown_token' = TRUE
    /\ UNCHANGED <<queue_vars, sync_vars, custom_vars, channel_vars, call_vars, status_vars, ping_vars, forward_vars>>

NextQueue ==
    \/ ShutdownSignal
    \/ QueueAddTask
    \/ HandleMessageAutomationTask
    \/ Pause
    \/ Resume
    \/ Clear
    \/ \E w \in Workers : Process(w)

SpecQueue == InitQueue /\ [][NextQueue]_vars

(***************************************************************************)
(* The queue under fair scheduling.  Tasks arrive with any priority and    *)
(* either command, at one created_at; the queue's callers pause, resume    *)
(* and clear at will.                                                      *)
(***************************************************************************)
\* commands::queue_add_task or handle_message: a task is submitted
SubmitTask ==
    /\ submitted < MaxTasks
    /\ \E p \in TaskPriority, cmd \in QueueCommands :
          add_task(NewTask(submitted + 1, p, 1, cmd))
    /\ UNCHANGED <<sync_vars, custom_vars, main_vars, channel_vars, call_vars,
                   status_vars, ping_vars, forward_vars>>

InitQueueFair == InitQueue

NextQueueFair ==
    \/ SubmitTask
    \/ Pause
    \/ Resume
    \/ Clear
    \/ \E w \in Workers : Process(w)

\* process() runs on the tokio runtime, which keeps polling a task that can
\* make progress; while the queue is paused the loop sleeps 100 ms and reads
\* is_paused again, so a resume that lasts is seen: the processor takes a
\* step if a step is possible again and again.  execute_task returns.  The
\* callers of the queue are under no obligation.  (Every step of process()
\* but the re-reading of a set is_paused moves pc.)
FairQueue == \A w \in Workers : SF_pc(Process(w))

SpecQueueFair == InitQueueFair /\ [][NextQueueFair]_vars /\ FairQueue

(***************************************************************************)
(* AutomationQueue::status (queue.rs:296-311), called by the queue_status  *)
(* command while the queue runs.  The call takes the `tasks` mutex and     *)
(* keeps it to the end; it then reads is_paused, completed_count,          *)
(* failed_count and current_task, each under its own lock, one await after *)
(* the other, so process() can move between two reads.                     *)
(***************************************************************************)
\* `let tasks = self.tasks.lock().await`
StatusLockTasks ==
    /\ st_pc = "idle"
    /\ LockFree("tasks")
    /\ st_pc' = "read_is_paused"
    /\ st_snap' = <<>>
    /\ UNCHANGED <<cleared, st_ret>>
    /\ UNCHANGED <<queue_vars, sync_vars, custom_vars, main_vars, channel_vars,
                   call_vars, ping_vars, forward_vars>>

\* what the three reads `*self.<field>.read().await` that follow share
StatusRead(lock, value, next) ==
    /\ \A w \in Workers : lock \notin held[w]
    /\ st_snap' = Append(st_snap, value)
    /\ st_pc' = next
    /\ UNCHANGED <<cleared, st_ret>>
    /\ UNCHANGED <<queue_vars, sync_vars, custom_vars, main_vars, channel_vars,
                   call_vars, ping_vars, forward_vars>>

\* `let is_paused = *self.is_paused.read().await`
StatusReadPaused ==
    /\ st_pc = "read_is_paused"
    /\ StatusRead("is_paused", is_paused, "read_completed")

\* `let completed = *self.completed_count.read().await`
StatusReadCompleted ==
    /\ st_pc = "read_completed"
    /\ StatusRead("completed_count", completed_count, "read_failed")

\* `let failed = *self.failed_count.read().await`
StatusReadFailed ==
    /\ st_pc = "read_failed"
    /\ StatusRead("failed_count", failed_count, "read_current")

\* `self.current_task.read().await.clone()`, then the QueueStatus is built
\* with `tasks.len()` and returned; the guards are dropped
StatusReadCurrent ==
    /\ st_pc = "read_current"
    /\ \A w \in Workers : "current_task" \notin held[w]
    /\ st_ret' = << [ is_paused |-> st_snap[1],
                      pending_tasks |-> Len(tasks),
                      completed_tasks |-> st_snap[2],
                      failed_tasks |-> st_snap[3],
                      current_task |-> IF ToString(current_task) = ToString(None)
                                       THEN <<>> ELSE <<current_task>> ] >>
    /\ st_pc' = "idle"
    /\ st_snap' = <<>>
    /\ UNCHANGED cleared
    /\ UNCHANGED <<queue_vars, sync_vars, custom_vars, main_vars, channel_vars,
                   call_vars, ping_vars, forward_vars>>

InitStatus == InitQueue

NextStatus ==
    \/ SubmitTask
    \/ Pause
    \/ Resume
    \/ Clear
    \/ \E w \in Workers : Process(w)
    \/ StatusLockTasks
    \/ StatusReadPaused
    \/ StatusReadCompleted
    \/ StatusReadFailed
    \/ StatusReadCurrent

SpecStatus == InitStatus /\ [][NextStatus]_vars

\* execute_task is called on one Custom command, on one platform
InitCustom ==
    /\ QueueAtStart
    /\ SyncAtRest
    /\ MainAtStart
    /\ ChannelAtRest
    /\ StatusAtRest
    /\ PingAtRest
    /\ ForwardAtRest
    /\ CallAtRest
    /\ cc_os \in TargetOs
    /\ \E c \in CustomCommands :
          /\ cc_name = c[1]
          /\ cc_params = c[2]
    /\ cc_pc = "start"
    /\ spawned = <<>>
    /\ requests = <<>>
    /\ cc_result = None

NextCustom ==
    \/ ExecuteCustomCommand
    \/ ProcessExit
    \/ ResponseArrives

SpecCustom == InitCustom /\ [][NextCustom]_vars

\* main has created the AutomationSync and spawned start(); the forwarding
\* task calls send_result, and send_status is there for any caller
InitChannel ==
    /\ QueueAtStart
    /\ SyncAtRest
    /\ CustomAtRest
    /\ MainAtStart
    /\ ChannelAtRest
    /\ StatusAtRest
    /\ PingAtRest
    /\ ForwardAtRest
    /\ CallAtRest

NextChannel ==
    \/ Connect
    \/ ConnectFails
    \/ StoreWriter
    \/ SetConnected
    \/ ReadText
    \/ ReadControl
    \/ ReadClose
    \/ ClearWriter
    \/ SetDisconnected
    \/ send_result
    \/ send_status

SpecChannel == InitChannel /\ [][NextChannel]_vars

\* The connections of the channel and their ping tasks: start() connects
\* and reconnects, the server closes the connection or lets it fail, and the
\* ping tasks wake up.
InitPing == InitChannel

NextPing ==
    \/ Connect
    \/ ConnectFails
    \/ StoreWriter
    \/ SetConnected
    \/ ReadControl
    \/ ReadClose
    \/ ClearWriter
    \/ SetDisconnected
    \/ \E k \in 1..MaxConnections : PingTick(k)

SpecPing == InitPing /\ [][NextPing]_vars

\* The channel of an AutomationSync on which set_auth_token was called
\* before it was shared and started.
InitChannelAuth ==
    /\ QueueAtStart
    /\ SyncAtRest
    /\ CustomAtRest
    /\ MainAtStart
    /\ ChannelAtRest
    /\ StatusAtRest
    /\ ForwardAtRest
    /\ CallAtRest
    /\ auth_token = <<"token">>
    /\ pingers = {}
    /\ pings = {}

NextChannelAuth ==
    \/ Connect
    \/ ConnectFails
    \/ StoreWriter
    \/ SetConnected
    \/ SendAuth
    \/ SendAuthFails
    \/ ReadText
    \/ ReadControl
    \/ ReadClose
    \/ ClearWriter
    \/ SetDisconnected
    \/ send_result
    \/ send_status

SpecChannelAuth == InitChannelAuth /\ [][NextChannelAuth]_vars

\* The queue's results on their way to the server: tasks are submitted and
\* processed, start() connects and reconnects, the server closes the
\* connection, and main's forwarding task takes the results off the channel.
InitForward == InitQueue

NextForward ==
    \/ SubmitTask
    \/ \E w \in Workers : Process(w)
    \/ Connect
    \/ ConnectFails
    \/ StoreWriter
    \/ SetConnected
    \/ ReadClose
    \/ ClearWriter
    \/ SetDisconnected
    \/ ForwardResult

\* process() and the forwarding task are spawned on the runtime, which keeps
\* polling a task that can make progress: recv() returns once a result is on
\* the channel and send_result returns.  The server and the network are
\* under no obligation.
FairForward ==
    /\ \A w \in Workers : SF_pc(Process(w))
    /\ WF_forwarded(ForwardResult)

SpecForward == InitForward /\ [][NextForward]_vars /\ FairForward

\* one call of requires_confirmation or classify_command_danger
InitTrust ==
    /\ QueueAtStart
    /\ SyncAtRest
    /\ CustomAtRest
    /\ MainAtStart
    /\ ChannelAtRest
    /\ StatusAtRest
    /\ PingAtRest
    /\ ForwardAtRest
    /\ fn_call \in TrustCalls
    /\ fn_ret = <<>>

NextTrust ==
    \/ CallRequiresConfirmation
    \/ CallClassifyCommandDanger

SpecTrust == InitTrust /\ [][NextTrust]_vars

\* one call of sanitize_command
InitSanitize ==
    /\ QueueAtStart
    /\ SyncAtRest
    /\ CustomAtRest
    /\ MainAtStart
    /\ ChannelAtRest
    /\ StatusAtRest
    /\ PingAtRest
    /\ ForwardAtRest
    /\ fn_call \in SanitizeCalls
    /\ fn_ret = <<>>

NextSanitize == CallSanitizeCommand

SpecSanitize == InitSanitize /\ [][NextSanitize]_vars

\* one call of validate_url, in production or in development mode
InitUrl ==
    /\ QueueAtStart
    /\ SyncAtRest
    /\ CustomAtRest
    /\ MainAtStart
    /\ ChannelAtRest
    /\ StatusAtRest
    /\ PingAtRest
    /\ ForwardAtRest
    /\ fn_call \in UrlCalls
    /\ fn_ret = <<>>

NextUrl == CallValidateUrl

SpecUrl == InitUrl /\ [][NextUrl]_vars

(***************************************************************************)
(* Properties of the task queue, checked under SpecQueue.                  *)
(***************************************************************************)
\* processor w holds a popped task: it is between the pop and the end of
\* the iteration
HoldsTask(w) == pc[w] \notin {"check_paused", "pop"}

\* the tasks process() popped and has not yet counted as completed or failed
Unfinished == Len(dequeued) - (completed_count + failed_count)

\* C1: at most one automation task is in flight at any time: whenever
\* process() pops a task, every task popped before it has finished (its
\* counter is updated, its result is sent and current_task is cleared), and
\* at no time is more than one popped task unfinished.
C1_OneTaskInFlight ==
    /\ [](Unfinished \in {0, 1})
    /\ [][ Len(dequeued') = Len(dequeued) + 1 =>
             /\ current_task = None
             /\ Unfinished = 0
             /\ Len(result_chan) = Len(dequeued) ]_vars

\* C1's case: a second task is in flight after the first one finished,
\* while the queue's callers kept running
C1_Witness ==
    /\ Len(dequeued) = 2
    /\ completed_count + failed_count = 1
    /\ \E w \in Workers : pc[w] = "executing" /\ current_task = task[w].id

\* the step is a pop by process()
IsPop == Len(dequeued') = Len(dequeued) + 1

\* the priorities of a sequence of tasks never increase
NonIncreasingPriority(ts) ==
    \A i, j \in 1..Len(ts) : i < j => ts[i].priority >= ts[j].priority

\* C2: whenever process() pops a task, no task left pending has a strictly
\* higher priority; and when every task was submitted before the first pop,
\* the pop order is non-increasing in priority.
C2_PriorityOrder ==
    /\ [][ IsPop =>
             \A k \in 1..Len(tasks') :
                 tasks'[k].priority <= dequeued'[Len(dequeued')].priority ]_vars
    /\ [](~late_add => NonIncreasingPriority(dequeued))

\* C2's case: the task submitted second has the higher priority and was
\* popped first
C2_Witness ==
    /\ Len(dequeued) = 2
    /\ ~late_add
    /\ dequeued[1].id = 2
    /\ dequeued[2].id = 1
    /\ dequeued[1].priority > dequeued[2].priority

\* C3: among tasks of equal priority, process() pops in the order of
\* submission (ids are given in submission order).
C3_FifoWithinPriority ==
    \A i, j \in 1..Len(dequeued) :
        (i < j /\ dequeued[i].priority = dequeued[j].priority)
            => dequeued[i].id < dequeued[j].id

\* C4: each popped task produces exactly one TaskResult on the result
\* channel, carrying its id, in pop order; no task is popped twice, and once
\* process() holds no task every popped task has its result.
C4_OneResultPerTask ==
    /\ Len(result_chan) <= Len(dequeued)
    /\ \A i \in 1..Len(result_chan) : result_chan[i].task_id = dequeued[i].id
    /\ \A i, j \in 1..Len(dequeued) : i # j => dequeued[i].id # dequeued[j].id
    /\ (\A w \in Workers : ~HoldsTask(w)) => Len(result_chan) = Len(dequeued)

\* C4's case: two tasks were popped and reported, a failed one among them
C4_Witness ==
    /\ Len(result_chan) = 2
    /\ \A w \in Workers : ~HoldsTask(w)
    /\ \E i \in 1..2 : ~result_chan[i].success

\* C5: while the queue is paused, process() pops no task and starts no
\* task execution.
C5_NoDequeueWhilePaused ==
    [][ is_paused =>
          /\ ~IsPop
          /\ \A w \in Workers : ~(pc[w] = "execute" /\ pc'[w] = "executing") ]_vars

\* C6: no task whose command requires confirmation under its trust level
\* is executed unless user confirmation was obtained for it first.
C6_ConfirmationBeforeExecution ==
    \A w \in Workers :
        (pc[w] = "executing" /\ task_requires_confirmation(task[w]))
            => task[w].id \in confirmed_tasks

(***************************************************************************)
(* Properties of the event buffer and the sync engine, checked under       *)
(* SpecSync.                                                               *)
(***************************************************************************)
\* the events a step removes from the buffer, and from the store
RemovedFromBuffer == Ids(events_buffer) \ Ids(events_buffer')

RemovedFromStore == db \ db'

\* the step is sync task p applying the result of sync_events
IsApply(p) == spc[p] = "done" /\ spc'[p] = "idle"

\* the step is the collector's push at capacity, which drops the oldest event
IsEviction ==
    /\ next_event' = next_event + 1
    /\ Len(events_buffer) >= MAX_BUFFER_SIZE

\* C7 as stated: an event leaves the buffer or the store only in a step
\* that applies an explicit per-id acknowledgment of the server holding its
\* id; never because the POST as a whole returned success.
C7_RemovedOnlyOnExplicitAck ==
    [][ \A e \in RemovedFromBuffer \cup RemovedFromStore :
          \E p \in SyncProcs :
              /\ IsApply(p)
              /\ response[p] = "success_acked"
              /\ e \in sync_ret[p].ids ]_vars

\* sync task p applies an acknowledgment list that holds e: the server's
\* explicit list, or the whole batch after a 2xx response that did not parse
AppliesAckOf(p, e) ==
    /\ IsApply(p)
    /\ sync_ret[p].ret = "Ok"
    /\ e \in sync_ret[p].ids
    /\ \/ response[p] = "success_acked"
       \/ response[p] = "success_unparsable" /\ e \in Ids(events[p])

\* C7 (amended): an event leaves the store only when a sync step applies
\* an acknowledgment list holding its id, and leaves the buffer only then
\* or as the oldest event dropped by the collector's capacity check; the
\* list is the server's per-id list or, after a successful response that
\* cannot be parsed, the ids of all submitted events.
C7_RemovedOnAckOrEviction ==
    [][ /\ \A e \in RemovedFromStore : \E p \in SyncProcs : AppliesAckOf(p, e)
        /\ \A e \in RemovedFromBuffer :
              \/ \E p \in SyncProcs : AppliesAckOf(p, e)
              \/ IsEviction /\ e = Head(events_buffer) ]_vars

\* C7's case: one event was retired by an acknowledgment that left another
\* submitted event in the buffer, and one was dropped at capacity
C7_Witness ==
    /\ retired # {}
    /\ evicted # {}
    /\ \E p \in SyncProcs :
          /\ spc[p] = "idle"
          /\ response[p] = "success_acked"
          /\ Ids(events[p]) \cap Ids(events_buffer) # {}
          /\ sync_ret[p].ids # {}

\* what C8 says of the step in which p applies the acknowledgment S of its
\* snapshot: the submitted events left are the snapshot without S, and
\* every event appended since the snapshot stays, in order
AckedExactly(p) ==
    LET sub == Ids(events[p])
        S == sync_ret[p].ids
    IN  /\ Ids(events_buffer') \cap sub = sub \ S
        /\ Cardinality(Ids(events_buffer') \cap sub) = Len(events[p]) - Cardinality(S)
        /\ SelectSeq(events_buffer', LAMBDA e : e \notin sub)
              = SelectSeq(events_buffer, LAMBDA e : e \notin sub)

FailedSync(p) == spc[p] = "done" /\ sync_ret[p].ret = "Err"

\* C9: when sync_events fails, the sync step removes no event: up to the
\* Err branch every submitted event is still in the buffer and the store
\* (unless the collector evicted it or another sync retired it), and the
\* Err branch itself leaves the buffer and the store as they are.
C9_FailedSyncRemovesNothing ==
    /\ [](\A p \in SyncProcs :
             FailedSync(p) =>
                 /\ (Ids(events[p]) \ (evicted \cup retired)) \subseteq Ids(events_buffer)
                 /\ (Ids(events[p]) \ retired) \subseteq db)
    /\ [][ \A p \in SyncProcs :
             (FailedSync(p) /\ IsApply(p)) => UNCHANGED <<events_buffer, db>> ]_vars

\* C9's case: a sync that ran out of retries was handled and the whole
\* batch is still buffered and stored
C9_Witness ==
    \E p \in SyncProcs :
        /\ spc[p] = "idle"
        /\ sync_ret[p].ret = "Err"
        /\ attempt[p] = MAX_RETRIES
        /\ Len(events[p]) > 0
        /\ Ids(events[p]) \subseteq Ids(events_buffer)
        /\ Ids(events[p]) \subseteq db

IsPost(p) == posts'[p] = posts[p] + 1

\* C11 as stated: one call of sync_events sends at most MAX_RETRIES = 3
\* POSTs in total, however many transient failures occur.
C11_AtMostMaxRetriesPosts ==
    \A p \in SyncProcs : posts[p] <= MAX_RETRIES

\* C11 (amended): one call of sync_events sends at most MAX_RETRIES + 1 = 4
\* POSTs in total, the first attempt and at most MAX_RETRIES retries,
\* however many transient failures occur.
C11_AtMostMaxRetriesPlusOnePosts ==
    \A p \in SyncProcs : posts[p] <= MAX_RETRIES + 1

\* C11's case: a call that met a transient failure at every attempt has
\* returned its error after the last retry
C11_Witness ==
    \E p \in SyncProcs :
        /\ spc[p] = "done"
        /\ response[p] \in TransientKinds
        /\ sync_ret[p].ret = "Err"
        /\ posts[p] = MAX_RETRIES + 1

\* C12: a transient failure at attempt k < MAX_RETRIES leaves the call in
\* its loop at attempt k + 1, whose POST is sent after the backoff sleep;
\* the delays slept are 1000 ms doubled at each retry, so each is strictly
\* greater than the one before.
C12_RetryWithGrowingDelay ==
    /\ [][ \A p \in SyncProcs :
             (IsPost(p) /\ response'[p] \in TransientKinds /\ attempt[p] < MAX_RETRIES)
             => /\ spc'[p] = "send"
                /\ attempt'[p] = attempt[p] + 1 ]_vars
    /\ [][ \A p \in SyncProcs :
             (IsPost(p) /\ attempt[p] > 0)
             => /\ Len(delays'[p]) = Len(delays[p]) + 1
                /\ posts'[p] = attempt[p] + 1 ]_vars
    /\ [](\A p \in SyncProcs : \A i \in 1..Len(delays[p]) :
             /\ delays[p][i] = INITIAL_RETRY_DELAY_MS * 2 ^ (i - 1)
             /\ i > 1 => delays[p][i] > delays[p][i - 1])

\* C12's case: a call has made all its retries after transient failures,
\* sleeping 1000, 2000 and 4000 ms
C12_Witness ==
    \E p \in SyncProcs :
        /\ posts[p] = MAX_RETRIES + 1
        /\ response[p] \in TransientKinds
        /\ delays[p] = <<1000, 2000, 4000>>

\* a failure that is not transient: a status that is neither success nor
\* 5xx, or a request error that is neither a timeout nor a connection error
NonTransientKinds == {"client_error", "fatal_error"}

\* C13: a non-transient failure makes sync_events return an error at once:
\* the call returns Err in the step of the failed POST, and a call that
\* has returned sends no further POST and sleeps no further delay.
C13_NonTransientAborts ==
    /\ [][ \A p \in SyncProcs :
             (IsPost(p) /\ response'[p] \in NonTransientKinds)
             => /\ spc'[p] = "done"
                /\ sync_ret'[p].ret = "Err"
                /\ attempt'[p] = attempt[p] ]_vars
    /\ [][ \A p \in SyncProcs :
             spc[p] = "done" => (posts'[p] = posts[p] /\ delays'[p] = delays[p]) ]_vars
    /\ [](\A p \in SyncProcs :
             (spc[p] = "done" /\ response[p] \in NonTransientKinds)
             => (sync_ret[p].ret = "Err" /\ Len(delays[p]) = posts[p] - 1))

\* C13's case: the first POST met a client error and the call returned
\* after that one POST, with no sleep
C13_Witness ==
    \E p \in SyncProcs :
        /\ spc[p] = "done"
        /\ response[p] = "client_error"
        /\ sync_ret[p].ret = "Err"
        /\ posts[p] = 1
        /\ delays[p] = <<>>

(***************************************************************************)
(* Properties of the buffer's bound and of its high-water warning,         *)
(* checked under SpecBuffer.                                               *)
(***************************************************************************)
\* the step is a push of the collector
IsPush == next_event' = next_event + 1

\* C14: the buffer never holds more than MAX_BUFFER_SIZE events, the state
\* loaded from the store at startup included, and a push at capacity drops
\* the oldest buffered event and keeps the pushed one.
C14_BufferBounded ==
    /\ [](Len(events_buffer) <= MAX_BUFFER_SIZE)
    /\ [][ (IsPush /\ Len(events_buffer) >= MAX_BUFFER_SIZE)
             => /\ events_buffer'[Len(events_buffer')] = next_event'
                /\ Head(events_buffer) \notin Ids(events_buffer') ]_vars

\* C15: the high-water warning is one-shot: once logged, neither the
\* collector nor a failed sync cycle logs it again before occupancy has
\* been below half the threshold.
C15_WarningOneShot == high_water # "warned_again"

(***************************************************************************)
(* Locks held across awaits.                                               *)
(***************************************************************************)
\* sync task p is inside sync_events: a request, a retry or a backoff sleep
InFlight(p) == spc[p] = "send"

\* C16: while a sync task's request is in flight, retries and backoff
\* sleeps included, the task does not hold the state lock, and the
\* collector can take it and append an event.
C16_NoLockAcrossRequest ==
    \A p \in SyncProcs :
        InFlight(p) =>
            /\ state_lock # p
            /\ next_event < MaxEvents => ENABLED CollectorPush

\* C16's case: a sync task is at a retry, and the buffer holds an event
\* the collector appended after the task's snapshot
C16_Witness ==
    \E p \in SyncProcs :
        /\ InFlight(p)
        /\ attempt[p] > 0
        /\ Ids(events_buffer) \ Ids(events[p]) # {}
        /\ state_lock = None
\* C17: while a task is executing, process() holds none of the queue's
\* locks: add_task, status, pause, resume and clear can take the locks
\* they need and complete without waiting for the task to finish.
C17_NoLockDuringExecution ==
    \A w \in Workers :
        pc[w] = "executing" =>
            /\ held[w] = {}
            /\ \A l \in QueueLocks : LockFree(l)
            /\ ENABLED Pause
            /\ ENABLED Resume
            /\ ENABLED Clear
            /\ submitted < MaxTasks =>
                  (ENABLED QueueAddTask /\ ENABLED HandleMessageAutomationTask)

\* C17's case: a Wait task is executing, and since it was popped a task
\* was added and the queue was paused
C17_Witness ==
    \E w \in Workers :
        /\ pc[w] = "executing"
        /\ task[w].command.type = "Wait"
        /\ Len(dequeued) = 1
        /\ late_add
        /\ Len(tasks) = 1
        /\ is_paused


(***************************************************************************)
(* Custom commands                                                         *)
(***************************************************************************)
\* the command was submitted with a string "command" in an object
HasCommandString ==
    /\ cc_params.kind = "object"
    /\ cc_params.command.kind = "string"

\* the strings among the items of the submitted "args" array
SubmittedArgs ==
    IF cc_params.kind = "object" /\ cc_params.args.kind = "array"
    THEN { cc_params.args.items[i].chars :
             i \in { k \in 1..Len(cc_params.args.items) :
                       cc_params.args.items[k].kind = "string" } }
    ELSE {}

\* sanitize_command accepts the command and sanitize_param every arg
ShellInputAccepted ==
    /\ HasCommandString
    /\ sanitize_command(cc_params.command.chars).ok
    /\ \A a \in SubmittedArgs : sanitize_param(a).ok

\* execute_task returned a Failed TaskResult that carries an error
FailedWithError ==
    /\ cc_pc = "done"
    /\ cc_result.success = FALSE
    /\ cc_result.error # None

\* C18: for a Custom "shell" command a process is spawned only when
\* sanitize_command accepted the command string and sanitize_param accepted
\* every arg; when one of them rejects, the execution is over after its first
\* step with a Failed TaskResult that carries an error, and nothing is spawned.
C18_ShellSpawnOnlyAfterValidation ==
    cc_name = "shell" =>
        /\ spawned # <<>> => ShellInputAccepted
        /\ (HasCommandString /\ ~ShellInputAccepted) =>
              /\ spawned = <<>>
              /\ cc_pc # "start" => FailedWithError

\* a "shell" command with args passed both sanitizers and its process was
\* spawned
C18_Witness ==
    /\ cc_name = "shell"
    /\ SubmittedArgs # {}
    /\ ShellInputAccepted
    /\ Len(spawned) = 1
    /\ spawned[1].program \in {"sh", "cmd"}

\* C19: the command line handed to the platform shell for a Custom "shell"
\* command (the command followed by the space-joined args) matches none of
\* the patterns of sanitize_command.
C19_ShellCommandLineClean ==
    cc_name = "shell" =>
        \A i \in 1..Len(spawned) : dangerous_pattern(spawned[i].full_command) = None

\* C20: a Custom command whose name is none of shell, applescript and
\* http_request ends in its first step with a Failed TaskResult that carries
\* an error; no process is spawned and no request is sent for it.
C20_UnknownNameFailsAtOnce ==
    cc_name \notin {"shell", "applescript", "http_request", None} =>
        /\ spawned = <<>>
        /\ requests = <<>>
        /\ cc_pc # "start" => FailedWithError

\* a command of an unknown name, whose params would be a valid shell
\* command, was executed
C20_Witness ==
    /\ cc_name = "open_app"
    /\ HasCommandString
    /\ sanitize_command(cc_params.command.chars).ok
    /\ cc_pc = "done"
    /\ cc_result.error = "Unknown custom command"


(***************************************************************************)
(* Shutdown                                                                *)
(***************************************************************************)
\* a processor leaves the pause check for the pop: a new polling iteration
BeginsIteration == \E w \in Workers : pc[w] = "check_paused" /\ pc'[w] = "pop"

\* C21: once the shutdown signal was received, process() starts no new
\* polling iteration and dequeues no further task.
C21_NoPollingAfterShutdown ==
    [][shutdown_token => ~(BeginsIteration \/ IsPop)]_vars


(***************************************************************************)
(* The order of the steps of process()                                     *)
(***************************************************************************)
\* the positions of the results of the given outcome on the result channel
Published(success) ==
    { i \in 1..Len(result_chan) : result_chan[i].success = success }

\* current_task is Some(id); None and an id are values of different kinds,
\* compared by their printed forms
CurrentTaskIs(id) == ToString(current_task) = ToString(id)

\* C30 as stated: whenever the TaskResult of a task is on the result
\* channel, current_task is no longer that task.
C30_PublishedAfterClear ==
    \A i \in 1..Len(result_chan) : ~CurrentTaskIs(result_chan[i].task_id)

\* C30: process() records the task id as current_task, executes the task,
\* updates the completed/failed counter, publishes the TaskResult and only
\* then clears current_task: every result on the channel is already
\* counted, and current_task still names a task whose result is on the
\* channel only while the processor stands before its clearing block.
C30_PublishedAfterCountBeforeClear ==
    /\ completed_count >= Cardinality(Published(TRUE))
    /\ failed_count >= Cardinality(Published(FALSE))
    /\ \A i \in 1..Len(result_chan) :
          CurrentTaskIs(result_chan[i].task_id) =>
              \E w \in Workers :
                  /\ pc[w] = "clear_current"
                  /\ task[w].id = result_chan[i].task_id

\* the result of a task is on the channel and current_task still names it
C30_Witness ==
    /\ Len(result_chan) > 0
    /\ CurrentTaskIs(result_chan[Len(result_chan)].task_id)
    /\ completed_count + failed_count = Len(result_chan)


(***************************************************************************)
(* The Remote Control Channel                                              *)
(***************************************************************************)
\* a step that is a call of send_result or send_status
IsSend == send_calls' = send_calls + 1

\* the channel is up: the current connection is open
ChannelUp == link = "open"

\* C22: send_result and send_status return an error and write nothing
\* whenever the channel is down, and whenever they return an error; they
\* return Ok only with the frame written to the connection that is open at
\* the time of the call.
C22_SendFailsWhenDown ==
    [][IsSend =>
          /\ ~ChannelUp => (send_ret' # "Ok" /\ written' = written)
          /\ send_ret' # "Ok" => written' = written
          /\ send_ret' = "Ok" =>
                /\ ChannelUp
                /\ written' = written + 1
                /\ last_written'.conn = connections
                /\ last_written'.frame \in {"task_result", "status"}]_vars

\* a frame was written to the second connection, and the call after it
\* found the channel down, between the close and the clearing of the writer
C22_Witness ==
    /\ send_calls = 2
    /\ written = 1
    /\ last_written.conn = 2
    /\ send_ret = "Failed to send"
    /\ link = "closed"
    /\ ws_writer # NoWriter

\* a step in which the read loop takes a message from the stream
IsReceive == received' = received + 1

\* C23: an automation_task frame causes exactly one add_task, of the task
\* it carries; every other message that is not the close of the connection
\* leaves the queue as it is; neither ends the read loop or the connection.
C23_OneAddPerTaskFrame ==
    [][IsReceive =>
          /\ last_received'.type = "automation_task" =>
                /\ submitted' = submitted + 1
                /\ Len(tasks') = Len(tasks) + 1
                /\ \E k \in 1..Len(tasks') : tasks'[k] = last_received'.task
          /\ last_received'.type # "automation_task" =>
                UNCHANGED <<tasks, submitted>>
          /\ ws_pc' = "read"
          /\ link' = "open"
          /\ ws_writer' = ws_writer]_vars

\* the read loop took a task frame, whose task is queued, and then a frame
\* of a type it does not know, and still reads
C23_Witness ==
    /\ received = 2
    /\ submitted = 1
    /\ Len(tasks) = 1
    /\ last_received.type = "unknown_type"
    /\ ws_pc = "read"
    /\ link = "open"


(***************************************************************************)
(* Trust levels and danger classes                                         *)
(***************************************************************************)
\* the function named fn was called and has returned
Returned(fn) == fn_call.fn = fn /\ fn_ret # <<>>

\* C24: requires_confirmation is true for AskAlways and false for
\* FullTrust at every danger level, and for AskDangerous it is true exactly
\* when the danger level is Dangerous.
C24_ConfirmationTable ==
    Returned("requires_confirmation") =>
        fn_ret[1] = CASE fn_call.level = "AskAlways" -> TRUE
                      [] fn_call.level = "FullTrust" -> FALSE
                      [] fn_call.level = "AskDangerous" -> fn_call.danger = "Dangerous"

\* AskDangerous was asked about a Moderate command and requires nothing
C24_Witness ==
    /\ Returned("requires_confirmation")
    /\ fn_call.level = "AskDangerous"
    /\ fn_call.danger = "Moderate"
    /\ fn_ret = <<FALSE>>

\* a control or command modifier is combined with one of the keys q, w,
\* delete, backspace, escape, in either case
SystemHotkey(command) ==
    /\ command.modifiers \cap {"meta", "cmd", "command", "control", "ctrl"} # {}
    /\ command.key \in {"q", "Q", "w", "W", "delete", "Delete", "backspace",
                        "escape", "Escape"}

\* the danger of every command but Type
DangerOfOthers(command) ==
    CASE command.type \in {"Screenshot", "BrowserGetUrl", "Wait"} -> "Safe"
      [] command.type \in {"Click", "BrowserNavigate"} -> "Moderate"
      [] command.type = "Hotkey" ->
            IF SystemHotkey(command) THEN "Dangerous" ELSE "Moderate"
      [] command.type = "Custom" -> "Dangerous"

\* C25 as stated: classify_command_danger returns Safe for Screenshot,
\* BrowserGetUrl and Wait, Moderate for Click and BrowserNavigate, Dangerous
\* for Custom, Dangerous for a Hotkey exactly when it is a system hotkey,
\* and for Type Moderate when the text has at most 100 characters and no
\* newline, Dangerous otherwise.
C25_DangerByCharacters ==
    Returned("classify_command_danger") =>
        fn_ret[1] = IF fn_call.command.type = "Type"
                    THEN IF fn_call.command.text.chars <= 100
                              /\ ~fn_call.command.text.newline
                         THEN "Moderate" ELSE "Dangerous"
                    ELSE DangerOfOthers(fn_call.command)

\* C25: the same, the length of a typed text being the number of bytes of
\* its UTF-8 encoding: Moderate at 100 bytes or fewer without a newline.
C25_DangerByBytes ==
    Returned("classify_command_danger") =>
        fn_ret[1] = IF fn_call.command.type = "Type"
                    THEN IF fn_call.command.text.bytes <= 100
                              /\ ~fn_call.command.text.newline
                         THEN "Moderate" ELSE "Dangerous"
                    ELSE DangerOfOthers(fn_call.command)

\* a system hotkey written with an upper-case key was classified Dangerous
C25_Witness ==
    /\ Returned("classify_command_danger")
    /\ fn_call.command.type = "Hotkey"
    /\ fn_call.command.modifiers = {"cmd", "shift"}
    /\ fn_call.command.key = "Q"
    /\ fn_ret = <<"Dangerous">>


(***************************************************************************)
(* The command sanitizer                                                   *)
(***************************************************************************)
\* the characters of a string
Chars(str) == { str[i] : i \in 1..Len(str) }

\* the inputs the deny-list names: one of ; & | ` $, the sequence ../, or
\* a > followed by optional whitespace and a &
DenyListed(cmd) ==
    \/ Chars(cmd) \cap {";", "&", "|", "BACKTICK", "$"} # {}
    \/ \E i \in 1..(Len(cmd) - 2) : SubSeq(cmd, i, i + 2) = <<".", ".", "/">>
    \/ \E i, j \in 1..Len(cmd) :
          /\ i < j
          /\ cmd[i] = ">"
          /\ cmd[j] = "&"
          /\ Chars(SubSeq(cmd, i + 1, j - 1)) \subseteq {" ", "TAB"}

\* C26: sanitize_command returns an error for empty and whitespace-only
\* input and for every input the deny-list names, and Ok with the input
\* unchanged for every other input.
C26_SanitizeCommand ==
    Returned("sanitize_command") =>
        IF Chars(fn_call.cmd) \subseteq {" ", "TAB"} \/ DenyListed(fn_call.cmd)
        THEN ~fn_ret[1].ok
        ELSE fn_ret[1] = [ok |-> TRUE, value |-> fn_call.cmd]

\* the directory traversal, which no other pattern covers, was rejected
C26_Witness ==
    /\ Returned("sanitize_command")
    /\ fn_call.cmd = <<".", ".", "/">>
    /\ ~fn_ret[1].ok


(***************************************************************************)
(* URL validation                                                          *)
(***************************************************************************)
\* validate_url has returned for a URL that parses, of the given scheme
ValidatedScheme(scheme) ==
    /\ Returned("validate_url")
    /\ fn_call.url.parsed
    /\ fn_call.url.scheme = scheme

\* the host written in the URL is an IPv4 literal of a loopback, private,
\* link-local or multicast range
InternalIpv4Host(host) ==
    /\ host.kind = "Ipv4"
    /\ \/ host.octets[1] \in {10, 127}
       \/ (host.octets[1] = 172 /\ host.octets[2] >= 16 /\ host.octets[2] <= 31)
       \/ (host.octets[1] = 192 /\ host.octets[2] = 168)
       \/ (host.octets[1] = 169 /\ host.octets[2] = 254)
       \/ host.octets[1] >= 224

\* the host is an IPv6 literal: ::1, fe80::/10, fc00::/7 or ff00::/8
InternalIpv6Host(host) ==
    /\ host.kind = "Ipv6"
    /\ \/ host.segments = <<0, 0, 0, 0, 0, 0, 0, 1>>
       \/ (host.segments[1] >= 65152 /\ host.segments[1] <= 65215)
       \/ (host.segments[1] >= 64512 /\ host.segments[1] <= 65023)
       \/ host.segments[1] >= 65280

\* the URL names a port of the blocked list that is not the scheme's default
BlockedPort(url) ==
    /\ url.port # <<>>
    /\ url.port[1] \in {0, 25, 110, 143, 465, 587, 993, 995}

LocalMachine(host) ==
    \/ (host.kind = "Domain" /\ host.labels = <<"localhost">>)
    \/ (host.kind = "Ipv4" /\ host.octets[1] = 127)
    \/ (host.kind = "Ipv6" /\ host.segments = <<0, 0, 0, 0, 0, 0, 0, 1>>)

\* C28: in production mode validate_url accepts an http URL only if its
\* host is the local machine.
C28_HttpOnlyLocalInProduction ==
    (ValidatedScheme("http") /\ ~fn_call.is_dev /\ fn_ret[1].ok) =>
        LocalMachine(fn_call.url.host)

\* C29: in production mode validate_url rejects every URL whose host is a
\* private, loopback, link-local or multicast IP literal, IPv4 or IPv6, for
\* http and https alike.
C29_InternalIpRejectedInProduction ==
    ( /\ Returned("validate_url")
      /\ fn_call.url.parsed
      /\ ~fn_call.is_dev
      /\ \/ InternalIpv4Host(fn_call.url.host)
         \/ InternalIpv6Host(fn_call.url.host) ) =>
        ~fn_ret[1].ok

(***************************************************************************)
(* The queue's counters and clear(), checked under SpecQueue.              *)
(***************************************************************************)
\* the results with the given outcome that process() has counted: those on
\* the result channel and the one counted but not yet sent
CountedResults(success) ==
    Cardinality({ k \in 1..Len(result_chan) : result_chan[k].success = success })
    + Cardinality({ w \in Workers :
                      /\ pc[w] = "send_result"
                      /\ result[w].success = success })

\* the step changes a counter
IsCount == completed_count' # completed_count \/ failed_count' # failed_count

\* C31: completed_tasks and failed_tasks never decrease; a step that
\* changes them is the processor counting the task it holds, and it adds
\* one to completed_tasks when the task's result has success = true and one
\* to failed_tasks otherwise, leaving the other alone; each popped task is
\* counted once, so that the counters equal the numbers of successful and
\* failed results; add_task, pause, resume and clear (the steps that change
\* the heap, is_paused or the number of submitted tasks) leave both alone.
C31_CountersFollowResults ==
    /\ [][ /\ completed_count' >= completed_count
           /\ failed_count' >= failed_count
           /\ IsCount =>
                 \E w \in Workers :
                     /\ pc[w] = "update_counters"
                     /\ completed_count' =
                            completed_count + (IF result[w].success THEN 1 ELSE 0)
                     /\ failed_count' =
                            failed_count + (IF result[w].success THEN 0 ELSE 1)
           /\ (tasks' # tasks \/ is_paused' # is_paused \/ submitted' # submitted)
                 => ~IsCount ]_vars
    /\ [](/\ completed_count = CountedResults(TRUE)
          /\ failed_count = CountedResults(FALSE)
          /\ completed_count + failed_count
                = Len(dequeued) - Cardinality({ w \in Workers :
                      pc[w] \in {"set_current", "execute", "executing",
                                 "update_counters"} }))

\* C31's case: one task was counted as completed and another as failed,
\* and both results are on the channel
C31_Witness ==
    /\ completed_count = 1
    /\ failed_count = 1
    /\ Len(result_chan) = 2

\* the step is a clear() that removes at least one task
IsClear == cleared' # cleared

\* C32: clear() empties the heap and changes nothing else (is_paused, the
\* counters, current_task, the processor's position, its task and its
\* result, and the result channel are as before, so a task in flight goes
\* on); a cleared task is never popped, is never current_task and never has
\* a TaskResult.
C32_ClearOnlyEmptiesHeap ==
    /\ [][ IsClear =>
             /\ tasks' = <<>>
             /\ cleared' = cleared \cup TaskIds(tasks)
             /\ UNCHANGED <<is_paused, completed_count, failed_count,
                            current_task, result_chan, pc, task, result,
                            submitted, dequeued>> ]_vars
    /\ [](\A id \in cleared :
             /\ id \notin TaskIds(tasks)
             /\ id \notin TaskIds(dequeued)
             /\ ~CurrentTaskIs(id)
             /\ \A k \in 1..Len(result_chan) : result_chan[k].task_id # id)

\* C32's case: two tasks were submitted, one was popped, and clear()
\* removed the other while the first was being executed
C32_Witness ==
    /\ submitted = 2
    /\ ~late_add
    /\ Len(dequeued) = 1
    /\ Cardinality(cleared) = 1
    /\ \E w \in Workers : pc[w] = "executing" /\ CurrentTaskIs(task[w].id)

(***************************************************************************)
(* Progress of the queue, checked under SpecQueueFair.                     *)
(***************************************************************************)
\* the TaskResult of task id is on the result channel
ResultPublished(id) == \E k \in 1..Len(result_chan) : result_chan[k].task_id = id

FailedCycle ==
    spc["periodic"] = "done" /\ sync_ret["periodic"].ret = "Err"

\* the periodic loop has taken a new snapshot and is about to POST it
NewAttempt ==
    spc["periodic"] = "send" /\ posts["periodic"] = 0

\* the server accepts the batch it is sent and acknowledges every id of it
ServerAccepts ==
    /\ response["periodic"] \in {None, "success_acked", "success_unparsable"}
    /\ spc["periodic"] = "done" =>
          /\ sync_ret["periodic"].ret = "Ok"
          /\ sync_ret["periodic"].ids = Ids(events["periodic"])

\* C34: a failed cycle never stops the periodic loop: after it the loop
\* takes a new snapshot and attempts delivery again, unless the buffer is
\* empty; and if from some point on the server accepts every batch and
\* acknowledges every id of it (the collector appends finitely many
\* events), the buffer becomes empty and stays empty.
C34_LoopSurvivesFailure ==
    /\ FailedCycle ~> (NewAttempt \/ events_buffer = <<>>)
    /\ (<>[]ServerAccepts) => <>[](events_buffer = <<>>)

\* C34's case: a cycle has just failed with its retries exhausted while
\* the buffer is full
C34_Witness ==
    /\ FailedCycle
    /\ response["periodic"] = "server_error"
    /\ posts["periodic"] = MAX_RETRIES + 1
    /\ Len(events_buffer) >= MAX_BUFFER_SIZE

(***************************************************************************)
(* Retransmission and the store, checked under SpecSync and SpecBuffer.    *)
(***************************************************************************)
\* the step is sync task p cloning the buffer for a new cycle
IsSnapshot(p) == spc[p] = "idle" /\ spc'[p] = "send"

\* C35 as stated: once the acknowledgment of an event has been applied, no
\* POST carries that event again, whichever of the periodic loop and
\* manual_sync sends it.
C35_NoResendAfterAck ==
    [][ \A p \in SyncProcs :
          IsPost(p) => Ids(events[p]) \cap retired = {} ]_vars

\* C35 (amended): a snapshot is the buffer as it is when the cycle starts,
\* and the buffer holds no event whose acknowledgment has been applied; so
\* no cycle that starts after the application sends the event.  A POST
\* carries the snapshot of its cycle, and a cycle whose snapshot was taken
\* before the application still sends the event (delivery is at least
\* once).
C35_NoAckedEventInLaterSnapshot ==
    /\ [][ \A p \in SyncProcs :
              IsSnapshot(p) =>
                  /\ events'[p] = events_buffer
                  /\ Ids(events'[p]) \cap retired = {} ]_vars
    /\ [][ \A p \in SyncProcs : IsPost(p) => events'[p] = events[p] ]_vars
    /\ [](Ids(events_buffer) \cap retired = {})

\* C35's case: manual_sync is about to POST a snapshot holding an event
\* whose acknowledgment the periodic loop has applied since
C35_Witness ==
    /\ spc["manual"] = "send"
    /\ spc["periodic"] = "idle"
    /\ Ids(events["manual"]) \cap retired # {}
    /\ sync_ret["periodic"].ret = "Ok"

IsStatusReturn == st_pc = "read_current" /\ st_pc' = "idle"

\* C37: in every QueueStatus that status() returns, each task that was
\* added and not cleared is accounted for exactly once, as pending, as
\* current_task, or as completed or failed: the four numbers add up to the
\* number of tasks added and not cleared.
C37_EveryTaskAccountedOnce ==
    [][ IsStatusReturn =>
          LET q == st_ret'[1]
          IN  q.pending_tasks + Len(q.current_task)
                + q.completed_tasks + q.failed_tasks
              = submitted - Cardinality(cleared) ]_vars

(***************************************************************************)
(* The write handle and the ping tasks, checked under SpecChannelAuth and  *)
(* SpecPing.                                                               *)
(***************************************************************************)
\* start() is between two connection attempts: connect() has returned
AttemptEnded == ws_pc \in {"set_disconnected", "connect"}

C39_OnePingLoop ==
    /\ Cardinality(pingers) <= 1
    /\ \A ping \in pings : ping.by = ping.conn

(***************************************************************************)
(* The results on their way to the server, checked under SpecForward.      *)
(***************************************************************************)
\* the ids of the results the forwarding task has taken off the channel
Forwarded == { result_chan[k].task_id : k \in 1..forwarded }

\* the channel is connected: start() is in the read loop of an open connection
ChannelConnected == is_connected /\ ws_pc = "read" /\ link = "open"

\* the forwarding task calls send_result
IsForward == send_calls' = send_calls + 1

\* C40 as stated: if the channel is connected from some moment on, every
\* result the queue publishes reaches the server at some moment: a result
\* whose send failed is kept and sent again.
C40_EveryResultReachesServer ==
    (<>[]ChannelConnected) =>
        \A id \in 1..MaxTasks : ResultPublished(id) ~> (id \in delivered)

\* C40 amended: every published result is handed to send_result once, in the
\* order of publication; it reaches the server if and only if that one call
\* returns Ok, and a result whose send failed is not offered again.
C40_EachResultSentOnce ==
    /\ [](send_calls = forwarded /\ delivered \subseteq Forwarded)
    /\ [][ IsForward =>
             /\ forwarded' = forwarded + 1
             /\ delivered' \ delivered \subseteq {result_chan[forwarded'].task_id}
             /\ (result_chan[forwarded'].task_id \in delivered') = (send_ret' = "Ok") ]_vars
    /\ [][ forwarded' >= forwarded /\ delivered \subseteq delivered'
           /\ (~IsForward => delivered' = delivered) ]_vars

\* the first result was sent while the channel was down and is gone, the
\* second was sent on the connection made afterwards
C40_Witness ==
    /\ forwarded = 2
    /\ Len(result_chan) = 2
    /\ result_chan[1].task_id \notin delivered
    /\ result_chan[2].task_id \in delivered
    /\ ChannelConnected
====
